---- MODULE Spec2Model ----
(***************************************************************************)
(* The ACP bridge: the JSON-RPC Connection (protocol.ts), the agent facade *)
(* with its turn executor (agent.ts) and the timers the executor arms.     *)
(*                                                                         *)
(* Specifications over the same variables:                                 *)
(*   Spec        the agent behind the Connection: frames arrive on the     *)
(*               input stream and Connection.#receive dispatches them;     *)
(*   SpecAgent   the Agent interface called directly (as the test suite    *)
(*               does), so calls may overlap;                              *)
(*   SpecConn    the Connection alone: outbound requests, their            *)
(*               responses, malformed lines and invalid params;            *)
(*   SpecBreaker a stand-alone CircuitBreaker (circuit-breaker.ts);        *)
(*   SpecOutage  the agent with a sequential client while the backend      *)
(*               fails, long enough for the agent's breaker to open;       *)
(*   SpecOverlap a stand-alone CircuitBreaker whose callers overlap;       *)
(*   SpecResource a stand-alone ResourceManager (resource-manager.ts);     *)
(*   SpecMonitor a stand-alone ContextMonitor;                             *)
(*   SpecFraming ProtocolIO.onChunk and Connection.#receive fed the same   *)
(*               chunks of one input stream;                               *)
(*   SpecShutdown the agent with end of input and shutdown as main has     *)
(*               them;                                                     *)
(*   SpecLoad    the agent asked to load sessions, up to the session       *)
(*               limit;                                                    *)
(*   SpecPermission the permission mode of one session over its prompts;   *)
(*   SpecPlan    one planned turn whose backend runs two tools;            *)
(*   SpecOutbound the agent behind the Connection while outbound requests  *)
(*               are sent during a handler and the peer answers them;      *)
(*   SpecRuntime a stand-alone Runtime (v2/core/runtime.ts) of the least   *)
(*               capacity; SpecRuntimeFair adds the event loop's fairness; *)
(*   SpecOrchestrator the Orchestrator (v2/agent/orchestrator.ts) with its *)
(*               ProtocolIO and Runtime as main wires them.                *)
(***************************************************************************)
EXTENDS Integers, Sequences, FiniteSets, TLC

\* ---------------------------------------------------------------- bounds
MaxFrames == 3      \* frames the peer sends / calls made on the agent
MaxEvents == 3      \* backend messages delivered in a run
MaxRequests == 2    \* calls of sendRequest
MaxCalls == 5       \* calls of CircuitBreaker.execute on a stand-alone breaker
MaxTicks == 1       \* times the clock is advanced in a run
MaxPrompts == 9     \* prompts a sequential client sends
MaxOperationIds == 5  \* distinct operation ids handed to a ResourceManager
MaxRmSessions == 3  \* distinct session ids handed to a ResourceManager
MaxMessages == 3    \* calls of ContextMonitor.addMessage
MaxLines == 3       \* frames on the input stream of a transport
MaxExtraIds == 1    \* session ids a client loads beyond maxConcurrentSessions
MaxPieces == 3      \* pieces (markers and other text) a prompt text is made of
MaxPlanEvents == 4  \* backend messages delivered to a planned turn
MaxOutbound == 1    \* outbound requests sent while a handler is running
MaxTasks == 130     \* calls of Runtime.schedule on a stand-alone Runtime
MaxDecoded == 3     \* messages ProtocolIO decodes for an Orchestrator

SessionIds == {"s1"}
ToolIds == {"t1"}
\* "simple": neither complex nor plan; "plan": isComplex, needsPlan, estimatedSteps >= 3
PromptKinds == {"simple", "plan"}

\* ------------------------------------------------------- program constants
INTERNAL_ERROR == -32603            \* RequestError.internalError
SESSION_BUSY == -32002              \* RequestError.sessionBusy
PARSE_ERROR == -32700               \* #sendParseError
INVALID_PARAMS == -32602            \* RequestError.invalidParams
SESSION_NOT_FOUND == -32001         \* RequestError.sessionNotFound
RESOURCE_EXHAUSTED == -32003        \* RequestError.resourceExhausted
CONNECTION_DESTROYED == -32003      \* the rejection destroy() hands out
maxConcurrentOperations == 50       \* ResourceManager limits
maxFileDescriptors == 1000
maxConcurrentSessions == 100
CONTEXT_LIMIT == 200000             \* ContextMonitor
WARNING_PERCENT == 80               \* WARNING_THRESHOLD = 0.8, in hundredths
CRITICAL_PERCENT == 95              \* CRITICAL_THRESHOLD = 0.95, in hundredths
BUFFER_TRIM == 1000000              \* ProtocolIO.onChunk empties a longer buffer

VARIABLES
    input,        \* frames on the input stream not yet read by #receive
    sent,         \* number of frames sent / calls made so far (gives fresh ids)
    calls,        \* handler invocations: frame number -> record
    sessions,     \* ClaudeACPAgent.sessions: session id -> AgentSession
    activeOps,    \* ResourceManager.concurrentOperations
    activeSessions, \* ResourceManager.activeSessions
    writeQueue,   \* Connection.#writeQueue: writes chained and not yet run
    output,       \* frames written to the output stream, in order
    isDestroyed,  \* Connection.#isDestroyed
    timers100,    \* armed setTimeout(.., 100) callbacks of handleToolStart
    timers500,    \* armed setTimeout(.., PLAN_UPDATE_DEBOUNCE) callbacks
    generated,    \* history: session updates in the order sessionUpdate was called
    pendingResponses, \* Connection.#pendingResponses: ids of outbound requests
    nextRequestId,    \* Connection.#nextRequestId
    futures,      \* the promise of each sendRequest call, in call order
    breaker,      \* the CircuitBreaker: its options and private fields
    now,          \* Date.now()
    ticks,        \* number of times the clock was advanced
    cbLog,        \* history: one record per call of CircuitBreaker.execute
    rm,           \* a ResourceManager: its limits and its two sets
    rmLast,       \* history: the last call made on rm
    monitor,      \* ContextMonitor.sessions: session id -> SessionStats
    cmLog,        \* history: one record per call of ContextMonitor.addMessage
    wire,         \* the input stream: the length of each frame; "\n" ends each
    eol,          \* os.EOL of the platform
    received,     \* characters of the input stream delivered in chunks so far
    ioStart,      \* ProtocolIO.buffer is the stream from here up to received
    ioEmitted,    \* history: frames ProtocolIO emitted as 'message', in order
    ioWarned,     \* history: lines ProtocolIO could not decode
    ioDisposed,   \* ProtocolIO.disposed
    connStart,    \* `content` of Connection.#receive, likewise
    connProcessed, \* history: frames #receive handed to #processMessage, in order
    exited,       \* process.exit was called
    smSessions,   \* SessionManager.sessions: the ids it holds in memory
    disk,         \* ids with a session state file in .acp-sessions
    loadLast,     \* history: the last call of ClaudeACPAgent.loadSession
    permissionMode, \* session.permissionMode of one session
    permLast,     \* history: the last prompt's text and the mode before and after
    runtime,      \* a Runtime: capacity, queue, running, dropped and where run() stands
    rtLog,        \* history: the tasks handed to schedule, started and in flight
    orchStarted,  \* Orchestrator.start has attached its 'message' listener
    decoded,      \* history: the messages ProtocolIO emitted, in order
    replies       \* the lines the 'send' listener has written to stdout

vars == <<input, sent, calls, sessions, activeOps, activeSessions, writeQueue, output,
          isDestroyed, timers100, timers500, generated,
          pendingResponses, nextRequestId, futures, breaker, now, ticks, cbLog,
          rm, rmLast, monitor, cmLog,
          wire, eol, received, ioStart, ioEmitted, ioWarned, ioDisposed,
          connStart, connProcessed, exited, smSessions, disk, loadLast,
          permissionMode, permLast, runtime, rtLog, orchStarted, decoded, replies>>

reqVars == <<pendingResponses, nextRequestId, futures>>
agentVars == <<input, sent, calls, sessions, activeOps, activeSessions, writeQueue, output,
               isDestroyed, timers100, timers500, generated>>
cbVars == <<breaker, now, ticks, cbLog>>
rmVars == <<rm, rmLast>>
cmVars == <<monitor, cmLog>>
ioVars == <<wire, eol, received, ioStart, ioEmitted, ioWarned, ioDisposed,
            connStart, connProcessed, exited>>
loadVars == <<smSessions, disk, loadLast>>
permVars == <<permissionMode, permLast>>
rtVars == <<runtime, rtLog>>
orchVars == <<orchStarted, decoded, replies>>
extraVars == <<permVars, rtVars, orchVars>>
auxVars == <<rmVars, cmVars, ioVars, loadVars, extraVars>>

\* ------------------------------------------------------- CircuitBreaker
\* the options the agent builds its breaker with
CLAUDE_SDK_CIRCUIT_OPTIONS ==
    [failureThreshold |-> 8, successThreshold |-> 3, timeout |-> 10000,
     monitoringPeriod |-> 120000]

\* the options the test suite builds a stand-alone breaker with
TestOptions ==
    [failureThreshold |-> 3, successThreshold |-> 2, timeout |-> 100,
     monitoringPeriod |-> 1000]

\* The constructor.  lastFailureTime 0 stands for undefined (Date.now() is never
\* 0); the total* counters, which only getStats reads, are left out.
CircuitBreaker(options) ==
    [opts |-> options, state |-> "CLOSED", failures |-> 0, successes |-> 0,
     nextAttempt |-> 0, lastFailureTime |-> 0]

Max(a, b) == IF a >= b THEN a ELSE b

cleanupOldFailures(b, t) ==
    IF b.lastFailureTime # 0 /\ b.lastFailureTime < t - b.opts.monitoringPeriod
    THEN [b EXCEPT !.failures = Max(0, @ - 1)]
    ELSE b

onSuccess(b) ==
    IF b.state = "HALF_OPEN"
    THEN IF b.successes + 1 >= b.opts.successThreshold
         THEN [b EXCEPT !.state = "CLOSED", !.failures = 0, !.successes = 0]
         ELSE [b EXCEPT !.successes = @ + 1]
    ELSE IF b.state = "CLOSED"
    THEN [b EXCEPT !.failures = Max(0, @ - 1)]
    ELSE [b EXCEPT !.state = "CLOSED", !.failures = 0, !.successes = 0]

onFailure(b, t) ==
    LET b2 == [b EXCEPT !.lastFailureTime = t, !.failures = @ + 1] IN
    IF (b2.state = "CLOSED" /\ b2.failures >= b2.opts.failureThreshold)
       \/ b2.state = "HALF_OPEN"
    THEN [b2 EXCEPT !.state = "OPEN", !.nextAttempt = t + b2.opts.timeout]
    ELSE b2

\* A variant of admit that lets a call through an OPEN breaker without the
\* transition to HALF_OPEN.
admitStayOpen(b, t) ==
    LET b1 == cleanupOldFailures(b, t) IN
    IF b1.state = "OPEN" /\ t < b1.nextAttempt
    THEN [breaker |-> b1, invoked |-> FALSE,
          error |-> "Circuit breaker is OPEN - failing fast"]
    ELSE [breaker |-> b1, invoked |-> TRUE, error |-> ""]

\* execute up to the call of the wrapped function (lines 25-31): the breaker's
\* new fields, whether the wrapped function is called, and the message of the
\* error thrown instead ("" if none)
admit(b, t) ==
    LET b1 == cleanupOldFailures(b, t) IN
    IF b1.state = "OPEN" /\ t < b1.nextAttempt
    THEN [breaker |-> b1, invoked |-> FALSE,
          error |-> "Circuit breaker is OPEN - failing fast"]
    ELSE [breaker |-> IF b1.state = "OPEN"
                      THEN [b1 EXCEPT !.state = "HALF_OPEN", !.successes = 0]
                      ELSE b1,
          invoked |-> TRUE, error |-> ""]

\* execute after the wrapped function has settled (lines 33-36)
settle(b, t, fnOk) ==
    IF fnOk
    THEN [breaker |-> onSuccess(b), invoked |-> TRUE, error |-> ""]
    ELSE [breaker |-> onFailure(b, t), invoked |-> TRUE, error |-> "Service down"]

\* A variant of execute that calls the wrapped function whatever the state is.
executeAlways(b, t, fnOk) == settle(cleanupOldFailures(b, t), t, fnOk)

\* execute at time t with a wrapped function that settles at once, resolving
\* (fnOk) or rejecting, as the agent's one does: query() returns its iterator
\* promptly.
execute(b, t, fnOk) ==
    LET a == admit(b, t) IN
    IF a.invoked THEN settle(a.breaker, t, fnOk) ELSE a

\* The history record of one call of execute (call: the turn that made it, or 0).
\* entered and successes are the state and the success count with which the
\* wrapped function was called, settledIn the state in which onSuccess or
\* onFailure found the breaker.
LogEntry(b, t, r, call) ==
    [pre |-> b.state, at |-> t, nextAttempt |-> b.nextAttempt,
     entered |-> admit(b, t).breaker.state,
     successes |-> admit(b, t).breaker.successes,
     settledIn |-> IF r.invoked THEN admit(b, t).breaker.state ELSE "",
     invoked |-> r.invoked, error |-> r.error, post |-> r.breaker.state,
     failures |-> r.breaker.failures, call |-> call]

\* the waits between calls: short of the timeout, the timeout, and past the
\* monitoring period
Delays(o) == {o.timeout \div 2, o.timeout, o.monitoringPeriod + 1}

\* ------------------------------------------------------------- messages
\* One record shape for every frame.  turn is a history field: the prompt call
\* whose execution produced the update (0 when none).  waiter names who awaits
\* the write: 0 the reader (#processMessage), c > 0 the turn of call c, -1 nobody.
Frame(type, id, method, sessionId, kind) ==
    [type |-> type, id |-> id, method |-> method, sessionId |-> sessionId,
     kind |-> kind, upd |-> "", toolCallId |-> "", status |-> "",
     entries |-> <<>>, code |-> 0, stopReason |-> "", turn |-> 0, waiter |-> -1,
     params |-> "valid", body |-> "", idText |-> "", text |-> <<>>]

Update(sessionId, turn, upd, toolCallId, status, entries, waiter) ==
    [Frame("notification", 0, "session/update", sessionId, "") EXCEPT
        !.upd = upd, !.toolCallId = toolCallId, !.status = status,
        !.entries = entries, !.turn = turn, !.waiter = waiter]

Response(id, code, stopReason, sessionId) ==
    [Frame("response", id, "", sessionId, "") EXCEPT
        !.code = code, !.stopReason = stopReason, !.waiter = 0]

IsRequest(m) == m.method # "" /\ m.id # 0
IsNotification(m) == m.method # "" /\ m.id = 0

NoSession == [pendingPrompt |-> 0, abortController |-> "none",
              currentPlan |-> <<>>, operationContext |-> {}]

\* ------------------------------------------------------- ResourceManager
\* the limits `new ResourceManager()` fills in
DefaultLimits ==
    [maxMemoryMB |-> 1024, maxFileDescriptors |-> maxFileDescriptors,
     maxConcurrentOperations |-> maxConcurrentOperations,
     maxConcurrentSessions |-> maxConcurrentSessions,
     memoryWarningThresholdMB |-> 512, memoryCriticalThresholdMB |-> 768]

\* limits a caller passes to the constructor: few operations and sessions
SmallLimits ==
    [DefaultLimits EXCEPT !.maxConcurrentOperations = 3, !.maxConcurrentSessions = 2,
                          !.memoryWarningThresholdMB = 256,
                          !.memoryCriticalThresholdMB = 512]

\* the same with a file-descriptor limit that binds before the operation limit
\* once two sessions are registered
LowFdLimits == [SmallLimits EXCEPT !.maxFileDescriptors = 16]

ResourceManager(limits) ==
    [limits |-> limits, concurrentOperations |-> {}, activeSessions |-> {}]

\* getStats, with rss = process.memoryUsage().rss in bytes; Math.round rounds
\* half up
getStats(r, rss) ==
    [memoryUsageMB |-> (rss + 512 * 1024) \div (1024 * 1024),
     activeFileDescriptors |->
         Cardinality(r.concurrentOperations) * 2 + Cardinality(r.activeSessions) + 10,
     concurrentOperations |-> Cardinality(r.concurrentOperations),
     activeSessions |-> Cardinality(r.activeSessions)]

rmCanStartOperation(r, rss) ==
    LET stats == getStats(r, rss) IN
    /\ stats.memoryUsageMB <= r.limits.memoryCriticalThresholdMB
    /\ stats.concurrentOperations < r.limits.maxConcurrentOperations
    /\ stats.activeFileDescriptors < r.limits.maxFileDescriptors

\* A variant of startOperation that adds the operation without asking
\* canStartOperation.
rmStartOperationUnchecked(r, operationId, rss) ==
    [rm |-> [r EXCEPT !.concurrentOperations = @ \cup {operationId}], result |-> TRUE]

rmStartOperation(r, operationId, rss) ==
    IF ~rmCanStartOperation(r, rss)
    THEN [rm |-> r, result |-> FALSE]
    ELSE [rm |-> [r EXCEPT !.concurrentOperations = @ \cup {operationId}],
          result |-> TRUE]

rmFinishOperation(r, operationId) ==
    [r EXCEPT !.concurrentOperations = @ \ {operationId}]

rmAddSession(r, sessionId) ==
    IF Cardinality(r.activeSessions) >= r.limits.maxConcurrentSessions
    THEN [rm |-> r, result |-> FALSE]
    ELSE [rm |-> [r EXCEPT !.activeSessions = @ \cup {sessionId}], result |-> TRUE]

rmRemoveSession(r, sessionId) == [r EXCEPT !.activeSessions = @ \ {sessionId}]

\* resident set sizes around the critical threshold of limits l, in bytes: the
\* largest that rounds below it, the threshold itself, the largest that rounds
\* to it and the smallest that rounds above it
RssValues(l) ==
    LET c == l.memoryCriticalThresholdMB * 1024 * 1024
        half == 512 * 1024
    IN  {c - half - 1, c, c + half - 1, c + half}

OperationIds == 1..MaxOperationIds
RmSessionIds == 1..MaxRmSessions

RmCall(op, id, rss, before, result) ==
    [op |-> op, id |-> id, rss |-> rss, before |-> before, result |-> result]

NoRmCall == RmCall("", 0, 0, ResourceManager(DefaultLimits), FALSE)

\* -------------------------------------------------------- ContextMonitor
\* A variant of estimateTokens that rounds down.
estimateTokensFloor(length) == length \div 4

\* estimateTokens of a content of `length` characters: Math.ceil(length / 4)
estimateTokens(length) == (length + 3) \div 4

NoStats == [usage |-> 0, estimatedTokens |-> 0, messages |-> 0]

\* A variant of addMessage that counts the new message alone instead of adding
\* it to the session's estimate.
addMessageReplacing(m, sessionId, length) ==
    LET tokens == estimateTokens(length)
        stats == IF sessionId \in DOMAIN m THEN m[sessionId] ELSE NoStats
        usage == IF tokens < CONTEXT_LIMIT THEN tokens ELSE CONTEXT_LIMIT
        after == [usage |-> usage, estimatedTokens |-> tokens,
                  messages |-> stats.messages + 1]
    IN  [monitor |-> [s \in DOMAIN m \cup {sessionId} |->
                         IF s = sessionId THEN after ELSE m[s]],
         returns |-> IF usage * 100 >= CRITICAL_PERCENT * CONTEXT_LIMIT THEN "critical"
                     ELSE IF usage * 100 >= WARNING_PERCENT * CONTEXT_LIMIT THEN "warning"
                     ELSE "null"]

\* usage is kept as its numerator over CONTEXT_LIMIT: Math.min(tokens / LIMIT, 1).
\* n / 200000 >= 0.95 holds in doubles exactly when n * 100 >= 95 * 200000: the
\* quotient of 190000 and the literal 0.95 round to the same double, and
\* likewise 160000 and 0.8.
addMessage(m, sessionId, length) ==
    LET tokens == estimateTokens(length)
        stats == IF sessionId \in DOMAIN m THEN m[sessionId] ELSE NoStats
        total == stats.estimatedTokens + tokens
        usage == IF total < CONTEXT_LIMIT THEN total ELSE CONTEXT_LIMIT
        after == [usage |-> usage, estimatedTokens |-> total,
                  messages |-> stats.messages + 1]
    IN  [monitor |-> [s \in DOMAIN m \cup {sessionId} |->
                         IF s = sessionId THEN after ELSE m[s]],
         returns |-> IF usage * 100 >= CRITICAL_PERCENT * CONTEXT_LIMIT THEN "critical"
                     ELSE IF usage * 100 >= WARNING_PERCENT * CONTEXT_LIMIT THEN "warning"
                     ELSE "null"]

clearSession(m, sessionId) == [s \in DOMAIN m \ {sessionId} |-> m[s]]

resetSession(m, sessionId) ==
    IF sessionId \in DOMAIN m THEN [m EXCEPT ![sessionId] = NoStats] ELSE m

\* content lengths: short messages, and messages that bring a session to either
\* side of the two thresholds, alone or on top of earlier ones
ContentLengths == {0, 1, 5, 120000, 639996, 639997, 759997}

MonitorSessionIds == {"m1", "m2"}

\* ------------------------------------------------- line framing of input
\* The input stream is wire[1] characters of JSON text, "\n", wire[2] characters,
\* "\n", ..: every frame is well formed and ended by "\n".  Positions count from
\* 0.  A receive buffer is always the part of the stream from some position up
\* to `received`, so it is kept as its first position.
RECURSIVE FrameStart(_, _)
FrameStart(w, k) == IF k = 1 THEN 0 ELSE FrameStart(w, k - 1) + w[k - 1] + 1

\* the position of the "\n" that ends frame k
FrameEnd(w, k) == FrameStart(w, k) + w[k]

\* the frames whose "\n" lies in the buffer from..to
Terminated(w, from, to) == {k \in DOMAIN w : from <= FrameEnd(w, k) /\ FrameEnd(w, k) < to}

\* the lines of the buffer: the text before each "\n" in it.  JSON.parse accepts
\* a line that is the whole text of a frame and rejects one that is the text of
\* a frame without its beginning; a line of no characters is skipped.
Decoded(w, from, to) == {k \in Terminated(w, from, to) : from <= FrameStart(w, k)}
Undecodable(w, from, to) ==
    {k \in Terminated(w, from, to) : FrameStart(w, k) < from /\ from < FrameEnd(w, k)}

\* the elements of a set of consecutive numbers, in order
InOrder(S) ==
    IF S = {} THEN <<>>
    ELSE LET lo == CHOOSE x \in S : \A y \in S : x <= y
         IN  [i \in 1..Cardinality(S) |-> lo + i - 1]

\* what is left of the buffer from..to after its lines are taken out
Rest(w, from, to) ==
    LET T == Terminated(w, from, to) IN
    IF T = {} THEN from
    ELSE FrameEnd(w, CHOOSE k \in T : \A j \in T : j <= k) + 1

\* ProtocolIO.onChunk with a chunk that brings the stream up to position `to`
onChunk(w, start, emitted, warned, to) ==
    LET tail == Rest(w, start, to) IN
    [start |-> IF to - tail > BUFFER_TRIM THEN to ELSE tail,
     emitted |-> emitted \o InOrder(Decoded(w, start, to)),
     warned |-> warned \cup Undecodable(w, start, to)]

\* one round of the loop of Connection.#receive.  content.split(EOL) finds the
\* "\n" of the stream only where EOL is "\n"; the stream holds no "\r\n".  Every
\* line it finds here is a whole frame: content is never cut short.
receive(w, e, start, processed, to) ==
    IF e = "\n"
    THEN [start |-> Rest(w, start, to),
          processed |-> processed \o InOrder(Decoded(w, start, to))]
    ELSE [start |-> start, processed |-> processed]

\* frame lengths: a short frame, and frames around the two sizes that matter
FrameLengths == {2, 1000000, 1000001, 1048577}

RECURSIVE Wires(_)
Wires(n) ==
    IF n = 0 THEN {<<>>}
    ELSE Wires(n - 1) \cup
         {Append(w, l) : w \in {v \in Wires(n - 1) : Len(v) = n - 1}, l \in FrameLengths}

\* where a chunk may end: after the first character of a frame, before its "\n"
\* and after its "\n"
Cuts(w) ==
    UNION {{FrameStart(w, k) + 1, FrameEnd(w, k), FrameEnd(w, k) + 1} : k \in DOMAIN w}

\* ------------------------------------------------------ session/load
\* A variant of loadSession that registers the session whatever the number of
\* sessions already registered.
loadSessionUnlimited(ss, act, sm, dk, sessionId) ==
    LET same == [sessions |-> ss, activeSessions |-> act, smSessions |-> sm,
                 disk |-> dk, error |-> ""]
    IN  IF sessionId \in DOMAIN ss THEN same
        ELSE IF sessionId \in sm \/ sessionId \in dk
        THEN [same EXCEPT !.sessions = ss @@ (sessionId :> NoSession),
                          !.smSessions = sm \cup {sessionId}]
        ELSE [same EXCEPT !.sessions = ss @@ (sessionId :> NoSession),
                          !.activeSessions = act \cup {sessionId},
                          !.smSessions = sm \cup {sessionId},
                          !.disk = dk \cup {sessionId}]

\* ClaudeACPAgent.loadSession with SessionManager.loadSession and createSession:
\* ss the agent's session map, act globalResourceManager's session set, sm the
\* SessionManager's map, dk the state files.  A session made from a state file
\* has the fields kept here as a new session has them (the file restores
\* permissionMode, createdAt and turnCount).  `error` is what is thrown, "" when
\* null is returned.
loadSession(ss, act, sm, dk, sessionId) ==
    LET same == [sessions |-> ss, activeSessions |-> act, smSessions |-> sm,
                 disk |-> dk, error |-> ""]
    IN  IF sessionId \in DOMAIN ss THEN same
        ELSE IF sessionId \in sm \/ sessionId \in dk
        THEN [same EXCEPT !.sessions = ss @@ (sessionId :> NoSession),
                          !.smSessions = sm \cup {sessionId}]
        ELSE IF Cardinality(act) >= maxConcurrentSessions
        THEN [same EXCEPT !.error = "Error: Maximum concurrent sessions reached"]
        ELSE [same EXCEPT !.sessions = ss @@ (sessionId :> NoSession),
                          !.activeSessions = act \cup {sessionId},
                          !.smSessions = sm \cup {sessionId},
                          !.disk = dk \cup {sessionId}]

\* the session ids a client asks for, numbered
LoadIds == 1..maxConcurrentSessions + MaxExtraIds

NoLoad == [sessionId |-> 0, before |-> [s \in {} |-> NoSession], registered |-> 0,
           known |-> FALSE, error |-> ""]

\* the subsystems that only their own specifications drive, as constructed
FreshResourceManager ==
    /\ rm = ResourceManager(DefaultLimits)
    /\ rmLast = NoRmCall

FreshMonitor ==
    /\ monitor = [s \in {} |-> NoStats]
    /\ cmLog = <<>>

\* both transports before any input; the platform is one with EOL "\n"
FreshTransport ==
    /\ received = 0
    /\ ioStart = 0
    /\ ioEmitted = <<>>
    /\ ioWarned = {}
    /\ ioDisposed = FALSE
    /\ connStart = 0
    /\ connProcessed = <<>>
    /\ exited = FALSE

NoInput == wire = <<>> /\ eol = "\n" /\ FreshTransport

NoLoads == smSessions = {} /\ disk = {} /\ loadLast = NoLoad

NoPermPrompt == [text |-> <<>>, previous |-> "", mode |-> ""]
NoPrompts == permissionMode = "default" /\ permLast = NoPermPrompt

\* ------------------------------------------------------------- Runtime
MIN_CAPACITY == 128        \* Math.max(128, capacity | 0)
DEFAULT_CAPACITY == 2048   \* constructor(log, capacity = 2048)

\* new Runtime(log, capacity).  pc is where run() stands: "idle" no run loop,
\* "loop" at the head of its while loop, "awaitTask" at `await res`, "yield" at the
\* awaited setImmediate.
Runtime(capacity) ==
    [capacity |-> IF capacity > MIN_CAPACITY THEN capacity ELSE MIN_CAPACITY,
     queue |-> <<>>, running |-> FALSE, dropped |-> 0, pc |-> "idle"]

\* nothing was scheduled yet.  next numbers the calls of schedule; order lists the
\* tasks in the order run() called them; refused holds the tasks schedule returned
\* false for; inFlight the tasks called and not yet settled; loops counts the
\* activations of run() that have not returned; threw tells whether the task that
\* settled last threw or rejected.
NoTasks == [next |-> 1, order |-> <<>>, refused |-> {}, inFlight |-> {}, loops |-> 0,
            threw |-> FALSE]

FreshRuntime == runtime = Runtime(DEFAULT_CAPACITY) /\ rtLog = NoTasks

\* an Orchestrator that was constructed and not started
NotStarted == orchStarted = FALSE /\ decoded = <<>> /\ replies = <<>>

\* the parts a specification does not use stay as constructed
UnusedExtra == NoPrompts /\ FreshRuntime /\ NotStarted

Unused == FreshResourceManager /\ FreshMonitor /\ NoInput /\ NoLoads /\ UnusedExtra

Constructed ==
    /\ input = <<>>
    /\ sent = 0
    /\ calls = <<>>
    /\ sessions = [s \in {} |-> NoSession]
    /\ activeOps = {}
    /\ activeSessions = {}
    /\ writeQueue = <<>>
    /\ output = <<>>
    /\ isDestroyed = FALSE
    /\ timers100 = <<>>
    /\ timers500 = <<>>
    /\ generated = <<>>
    /\ pendingResponses = {}
    /\ nextRequestId = 0
    /\ futures = <<>>
    /\ now = 1
    /\ ticks = 0
    /\ cbLog = <<>>

\* the agent, with the breaker its constructor builds
Init == Constructed /\ breaker = CircuitBreaker(CLAUDE_SDK_CIRCUIT_OPTIONS) /\ Unused

\* a stand-alone breaker as the test suite builds it
InitBreaker == Constructed /\ breaker = CircuitBreaker(TestOptions) /\ Unused

\* ------------------------------------------------------------ Connection
\* A variant of SendMessage that runs the newest write first.
SendMessageFirst(queue, m) == <<m>> \o queue

\* #sendMessage: the write is chained behind every write queued before it.
SendMessage(queue, m) == Append(queue, m)

\* sendNotification: nothing is sent once the connection is destroyed.
SendNotification(queue, m) == IF isDestroyed THEN queue ELSE SendMessage(queue, m)

RECURSIVE Enqueue(_, _)
Enqueue(queue, ms) ==
    IF ms = <<>> THEN queue
    ELSE Enqueue(IF Head(ms).type = "notification"
                    THEN SendNotification(queue, Head(ms))
                    ELSE SendMessage(queue, Head(ms)),
                 Tail(ms))

\* An awaited #sendMessage resolves when the chained write has run.
NotAwaiting(w) == \A i \in DOMAIN writeQueue : writeQueue[i].waiter # w

\* #tryCallHandler: what the handler threw decides the error code of the response.
TryCallHandler(error) ==
    IF error = "" THEN 0
    ELSE IF error = "ZodError" THEN INVALID_PARAMS
    ELSE INTERNAL_ERROR

\* #receive awaits #processMessage, which awaits the handler and then the write of
\* the response: the next line is taken only when both have settled.
ReaderIdle ==
    /\ \A c \in DOMAIN calls : calls[c].via = "conn" => calls[c].pc = "done"
    /\ NotAwaiting(0)

\* A variant of ResponseFor that answers a request with two frames.
ResponseForTwice(rec, error, stopReason) ==
    IF rec.via = "conn" /\ rec.id # 0
    THEN <<Response(rec.id, TryCallHandler(error), stopReason, rec.sessionId),
           Response(rec.id, TryCallHandler(error), stopReason, rec.sessionId)>>
    ELSE <<>>

\* #processMessage: a request is answered with one frame carrying its id.
ResponseFor(rec, error, stopReason) ==
    IF rec.via = "conn" /\ rec.id # 0
    THEN <<Response(rec.id, TryCallHandler(error), stopReason, rec.sessionId)>>
    ELSE <<>>

\* ------------------------------------------------------ ResourceManager
fdEstimate == Cardinality(activeOps) * 2 + Cardinality(activeSessions) + 10

\* memOk: process.memoryUsage().rss is within memoryCriticalThresholdMB
canStartOperation(memOk) ==
    /\ memOk
    /\ Cardinality(activeOps) < maxConcurrentOperations
    /\ fdEstimate < maxFileDescriptors

\* ------------------------------------------------------------ the agent
Effect(cs, ss, ops, ms) == [calls |-> cs, sessions |-> ss, ops |-> ops, msgs |-> ms]

Apply(e) ==
    /\ calls' = e.calls
    /\ sessions' = e.sessions
    /\ activeOps' = e.ops
    /\ writeQueue' = Enqueue(writeQueue, e.msgs)
    /\ generated' = generated \o SelectSeq(e.msgs, LAMBDA m : m.type = "notification")

SetCall(c, rec) == IF c = Len(calls) + 1 THEN Append(calls, rec) ELSE [calls EXCEPT ![c] = rec]

NewCall(m, via) ==
    [method |-> m.method, sessionId |-> m.sessionId, kind |-> m.kind, via |-> via,
     id |-> m.id, pc |-> "start", todo |-> <<>>, events |-> 0, tool |-> "",
     started |-> {}, error |-> "", code |-> 0, stopReason |-> "",
     overlapped |-> FALSE, cancelRequested |-> FALSE,
     params |-> m.params, invoked |-> TRUE, breakerAtStart |-> breaker.state]

Settled(rec, error, stopReason) ==
    [rec EXCEPT !.pc = "done", !.error = error, !.code = TryCallHandler(error),
                !.stopReason = stopReason]

\* A handler that throws before its first await.
Throw(c, rec, ss, error) ==
    Effect(SetCall(c, Settled(rec, error, "")), ss, activeOps, ResponseFor(rec, error, ""))

\* A variant of Finish whose finally blocks do not call finishOperation.
FinishHoldingSlots(c, rec, stopReason) ==
    Effect(SetCall(c, Settled(rec, "", stopReason)),
           [sessions EXCEPT ![rec.sessionId].pendingPrompt = 0,
                            ![rec.sessionId].abortController = "none"],
           activeOps,
           ResponseFor(rec, "", stopReason))

\* executePrompt: `return {stopReason}` followed by its finally block and by the
\* finally block of prompt().
Finish(c, rec, stopReason) ==
    Effect(SetCall(c, Settled(rec, "", stopReason)),
           [sessions EXCEPT ![rec.sessionId].pendingPrompt = 0,
                            ![rec.sessionId].abortController = "none"],
           activeOps \ {<<"claude-query", c>>, <<"prompt", c>>},
           ResponseFor(rec, "", stopReason))

\* A variant of ErrorText that never recognises the breaker's error.
ErrorTextPlain(errorMessage) == <<"[ERROR] Error: ", errorMessage>>

\* sendErrorMessage: the text of the chunk.  Of the messages thrown in
\* executePrompt only the breaker's includes 'Circuit breaker is OPEN'.
ErrorText(errorMessage) ==
    IF errorMessage = "Circuit breaker is OPEN - failing fast"
    THEN <<"[RETRY] Service temporarily unavailable - retrying automatically">>
    ELSE <<"[ERROR] Error: ", errorMessage>>

sendErrorMessage(sessionId, c, errorMessage) ==
    [Update(sessionId, c, "agent_message_chunk", "", "", <<>>, c) EXCEPT
        !.text = ErrorText(errorMessage)]

\* executePrompt's catch block; ops is the operation set at the throw.
Catch(c, rec, ops, errorMessage) ==
    IF sessions[rec.sessionId].abortController = "aborted"
    THEN [Finish(c, rec, "cancelled") EXCEPT !.ops = ops \ {<<"claude-query", c>>, <<"prompt", c>>}]
    ELSE Effect(SetCall(c, [rec EXCEPT !.pc = "errorSend"]), sessions, ops,
                <<sendErrorMessage(rec.sessionId, c, errorMessage)>>)

\* analyzePromptComplexity and the notifications executePrompt sends before the query
PreflightUpdates(kind) == IF kind = "plan" THEN <<"agent_thought_chunk", "plan">> ELSE <<>>

\* generateAndSendPlan with estimatedSteps >= 3
InitialPlan == <<"in_progress", "pending", "pending">>

\* One awaited notification of the pre-flight.  generateAndSendPlan stores the plan
\* in the session before it sends it.
PreflightSend(c, rec, ss, ops) ==
    LET u == Head(rec.todo)
        s == rec.sessionId
        ss2 == IF u = "plan" THEN [ss EXCEPT ![s].currentPlan = InitialPlan] ELSE ss
    IN  Effect(SetCall(c, [rec EXCEPT !.pc = "preflight", !.todo = Tail(rec.todo)]),
               ss2, ops,
               <<Update(s, c, u, "", "", IF u = "plan" THEN InitialPlan ELSE <<>>, c)>>)

\* startOperation(`claude-query-..`) and the call of the circuit breaker
StartQuery(c, rec, memOk) ==
    IF canStartOperation(memOk)
    THEN Effect(SetCall(c, [rec EXCEPT !.pc = "query"]), sessions,
                activeOps \cup {<<"claude-query", c>>}, <<>>)
    ELSE Catch(c, rec, activeOps, "System resources exhausted - cannot execute Claude query")

\* prompt() from `session.abortController = new AbortController()` to the first await
PromptBegin(c, rec, memOk) ==
    LET s == rec.sessionId
        ss == [sessions EXCEPT ![s].abortController = "live"]
        rec2 == [rec EXCEPT !.todo = PreflightUpdates(rec.kind)]
    IN  IF ~canStartOperation(memOk)
        THEN Throw(c, rec, ss, "Error: System resources exhausted - cannot process prompt")
        ELSE IF rec2.todo # <<>>
             THEN PreflightSend(c, rec2, ss, activeOps \cup {<<"prompt", c>>})
             ELSE Effect(SetCall(c, [rec2 EXCEPT !.pc = "query"]), ss,
                         activeOps \cup {<<"prompt", c>>, <<"claude-query", c>>}, <<>>)

InFlight(s) == {k \in DOMAIN calls : calls[k].method = "session/prompt"
                                     /\ calls[k].sessionId = s /\ calls[k].pc # "done"}

\* prompt(): getSession, the busy check, the abort of a left-over controller
Prompt(c, m, via) ==
    LET s == m.sessionId
        rec == [NewCall(m, via) EXCEPT !.overlapped = InFlight(s) # {}]
    IN  /\ m.method = "session/prompt"
        /\ \E memOk \in BOOLEAN :
             Apply(IF s \notin DOMAIN sessions
                   THEN Throw(c, rec, sessions, "Error: Session not found")
                   ELSE IF sessions[s].pendingPrompt # 0
                   THEN Throw(c, rec, sessions, "Error: Session is busy processing another prompt")
                   ELSE IF sessions[s].abortController # "none"
                   THEN Effect(SetCall(c, [rec EXCEPT !.pc = "abortWait"]),
                               [sessions EXCEPT ![s].abortController = "aborted"],
                               activeOps, <<>>)
                   ELSE PromptBegin(c, rec, memOk))
        /\ UNCHANGED <<activeSessions, timers100, timers500>>

\* newSession
NewSession(c, m, via) ==
    LET rec == NewCall(m, via) IN
    /\ m.method = "session/new"
    /\ \E memOk \in BOOLEAN :
         IF ~canStartOperation(memOk)
         THEN /\ Apply(Throw(c, rec, sessions, "ResourceError: System resources exhausted"))
              /\ UNCHANGED activeSessions
         ELSE IF Cardinality(activeSessions) >= maxConcurrentSessions
         THEN /\ Apply(Throw(c, rec, sessions, "Error: Maximum concurrent sessions reached"))
              /\ UNCHANGED activeSessions
         ELSE LET s == CHOOSE x \in SessionIds : x \notin DOMAIN sessions IN
              /\ activeSessions' = activeSessions \cup {s}
              /\ Apply(Effect(SetCall(c, Settled([rec EXCEPT !.sessionId = s], "", "")),
                              sessions @@ (s :> NoSession), activeOps,
                              ResponseFor([rec EXCEPT !.sessionId = s], "", "")))
    /\ UNCHANGED <<timers100, timers500>>

\* cancel
Cancel(c, m, via) ==
    LET s == m.sessionId
        rec == Settled(NewCall(m, via), "", "")
        hit == s \in DOMAIN sessions /\ sessions[s].abortController # "none"
        cs == [k \in DOMAIN calls |->
                 IF k \in InFlight(s) THEN [calls[k] EXCEPT !.cancelRequested = TRUE]
                 ELSE calls[k]]
    IN  /\ m.method = "session/cancel"
        /\ Apply(Effect(Append(cs, rec),
                        IF hit THEN [sessions EXCEPT ![s].abortController = "aborted",
                                                     ![s].pendingPrompt = 0]
                        ELSE sessions,
                        activeOps, <<>>))
        /\ UNCHANGED <<activeSessions, timers100, timers500>>

\* the handler's schema.parse(params) throws: the agent method is not called
InvalidParams(c, m, via) ==
    /\ Apply(Throw(c, [NewCall(m, via) EXCEPT !.invoked = FALSE], sessions, "ZodError"))
    /\ UNCHANGED <<activeSessions, timers100, timers500>>

\* A variant of Invoke that calls the agent method without validating the params.
InvokeUnvalidated(c, m, via) ==
    \/ NewSession(c, m, via)
    \/ Prompt(c, m, via)
    \/ Cancel(c, m, via)

\* the AgentSideConnection handler: validate the params, then call the agent method
\* (a direct call of the Agent interface passes no schema)
Invoke(c, m, via) ==
    IF via = "conn" /\ m.params = "invalid"
    THEN InvalidParams(c, m, via)
    ELSE \/ NewSession(c, m, via)
         \/ Prompt(c, m, via)
         \/ Cancel(c, m, via)

\* ------------------------------------------------- the turn (executePrompt)
Turn(c) == c \in DOMAIN calls /\ calls[c].method = "session/prompt"

\* prompt(): the 100 ms wait after aborting a left-over controller has elapsed
AbortWaitDone(c) ==
    /\ Turn(c) /\ calls[c].pc = "abortWait"
    /\ \E memOk \in BOOLEAN : Apply(PromptBegin(c, calls[c], memOk))
    /\ UNCHANGED <<input, sent, activeSessions, output, isDestroyed, timers100, timers500,
                   pendingResponses, nextRequestId, futures>>
    /\ UNCHANGED cbVars
    /\ UNCHANGED auxVars

\* executePrompt: the awaited notification was written; send the next one or
\* start the query
PreflightStep(c) ==
    /\ Turn(c) /\ calls[c].pc = "preflight" /\ NotAwaiting(c)
    /\ IF calls[c].todo # <<>>
       THEN Apply(PreflightSend(c, calls[c], sessions, activeOps))
       ELSE \E memOk \in BOOLEAN : Apply(StartQuery(c, calls[c], memOk))
    /\ UNCHANGED <<input, sent, activeSessions, output, isDestroyed, timers100, timers500,
                   pendingResponses, nextRequestId, futures>>
    /\ UNCHANGED cbVars
    /\ UNCHANGED auxVars

\* claudeSDKCircuitBreaker.execute settles: the message stream, or a throw
QueryReturn(c) ==
    /\ Turn(c) /\ calls[c].pc = "query"
    /\ \E ok \in BOOLEAN :
         LET r == execute(breaker, now, ok) IN
         /\ breaker' = r.breaker
         /\ cbLog' = Append(cbLog, LogEntry(breaker, now, r, c))
         /\ Apply(IF r.error = ""
                  THEN Effect(SetCall(c, [calls[c] EXCEPT !.pc = "loop"]),
                              [sessions EXCEPT ![calls[c].sessionId].pendingPrompt = c],
                              activeOps, <<>>)
                  ELSE Catch(c, calls[c], activeOps \ {<<"claude-query", c>>}, r.error))
    /\ UNCHANGED <<input, sent, activeSessions, output, isDestroyed, timers100, timers500,
                   pendingResponses, nextRequestId, futures, now, ticks>>
    /\ UNCHANGED auxVars

\* updatePlanForToolCompletion: the first in_progress entry becomes completed and
\* a pending successor becomes in_progress
FirstInProgress(plan) ==
    IF \E i \in DOMAIN plan : plan[i] = "in_progress"
    THEN CHOOSE i \in DOMAIN plan :
            plan[i] = "in_progress" /\ \A j \in 1..(i - 1) : plan[j] # "in_progress"
    ELSE 0

AdvancePlan(plan) ==
    LET i == FirstInProgress(plan) IN
    IF i = 0 THEN plan
    ELSE [j \in DOMAIN plan |->
            IF j = i THEN "completed"
            ELSE IF j = i + 1 /\ plan[j] = "pending" THEN "in_progress"
            ELSE plan[j]]

\* The messages a turn may receive next: a tool's output or error follows its start.
BackendMessagesOf(rec, ids) ==
    {[type |-> "text", id |-> ""]}
    \cup {[type |-> "tool_use_start", id |-> t] : t \in ids \ rec.started}
    \cup {[type |-> ty, id |-> t] : ty \in {"tool_use_output", "tool_use_error"}, t \in rec.started}

BackendMessages(rec) == BackendMessagesOf(rec, ToolIds)

\* handleMessage, to its first await
HandleMessage(c, rec, ev) ==
    LET s == rec.sessionId
        sess == sessions[s]
        rec2 == [rec EXCEPT !.events = @ + 1, !.tool = ev.id]
    IN  CASE ev.type = "text" ->
               Effect(SetCall(c, rec2), sessions, activeOps,
                      <<Update(s, c, "agent_message_chunk", "", "", <<>>, c)>>)
          [] ev.type = "tool_use_start" ->
               Effect(SetCall(c, [rec2 EXCEPT !.pc = "toolStartSent", !.started = @ \cup {ev.id}]),
                      [sessions EXCEPT ![s].operationContext = @ \cup {ev.id}], activeOps,
                      <<Update(s, c, "tool_call", ev.id, "pending", <<>>, c)>>)
          [] ev.type = "tool_use_output" ->
               Effect(SetCall(c, [rec2 EXCEPT !.pc = "toolOutputSent"]),
                      IF sess.currentPlan # <<>> /\ ev.id \in sess.operationContext
                      THEN [sessions EXCEPT ![s].currentPlan = AdvancePlan(@)]
                      ELSE sessions,
                      activeOps,
                      <<Update(s, c, "tool_call_update", ev.id, "completed", <<>>, c)>>)
          [] ev.type = "tool_use_error" ->
               Effect(SetCall(c, rec2), sessions, activeOps,
                      <<Update(s, c, "tool_call_update", ev.id, "failed", <<>>, c)>>)

\* updatePlanForToolCompletion arms the debounce timer when it changed the plan
PlanTimerArmed(rec, ev) ==
    LET sess == sessions[rec.sessionId] IN
    /\ ev.type = "tool_use_output"
    /\ sess.currentPlan # <<>> /\ ev.id \in sess.operationContext
    /\ FirstInProgress(sess.currentPlan) # 0

\* backend messages delivered so far, over all turns
RECURSIVE TotalEvents(_)
TotalEvents(n) == IF n = 0 THEN 0 ELSE calls[n].events + TotalEvents(n - 1)

\* `for await (const message of messages)`: the stream yields a message, one of
\* at most maxEvents of a run, about a tool of ids
BackendMessageWithin(c, maxEvents, ids) ==
    /\ Turn(c) /\ calls[c].pc = "loop" /\ NotAwaiting(c)
    /\ TotalEvents(Len(calls)) < maxEvents
    /\ \E ev \in BackendMessagesOf(calls[c], ids) :
         LET aborted == sessions[calls[c].sessionId].abortController = "aborted" IN
         /\ Apply(IF aborted THEN Finish(c, calls[c], "cancelled")
                  ELSE HandleMessage(c, calls[c], ev))
         /\ timers500' = IF ~aborted /\ PlanTimerArmed(calls[c], ev)
                         THEN Append(timers500, [sessionId |-> calls[c].sessionId, turn |-> c])
                         ELSE timers500
    /\ UNCHANGED <<input, sent, activeSessions, output, isDestroyed, timers100,
                   pendingResponses, nextRequestId, futures>>
    /\ UNCHANGED cbVars
    /\ UNCHANGED auxVars

BackendMessage(c) == BackendMessageWithin(c, MaxEvents, ToolIds)

\* the stream ends: the loop is left and the turn returns end_turn
BackendEnd(c) ==
    /\ Turn(c) /\ calls[c].pc = "loop" /\ NotAwaiting(c)
    /\ Apply(Finish(c, calls[c], "end_turn"))
    /\ UNCHANGED <<input, sent, activeSessions, output, isDestroyed, timers100, timers500,
                   pendingResponses, nextRequestId, futures>>
    /\ UNCHANGED cbVars
    /\ UNCHANGED auxVars

\* handleToolStart after the awaited tool_call: setTimeout(.., 100)
ToolStartSent(c) ==
    /\ Turn(c) /\ calls[c].pc = "toolStartSent" /\ NotAwaiting(c)
    /\ timers100' = Append(timers100, [sessionId |-> calls[c].sessionId, turn |-> c,
                                       toolCallId |-> calls[c].tool])
    /\ Apply(Effect(SetCall(c, [calls[c] EXCEPT !.pc = "loop"]), sessions, activeOps, <<>>))
    /\ UNCHANGED <<input, sent, activeSessions, output, isDestroyed, timers500,
                   pendingResponses, nextRequestId, futures>>
    /\ UNCHANGED cbVars
    /\ UNCHANGED auxVars

\* handleToolOutput after the awaited update: operationContext.delete
ToolOutputSent(c) ==
    /\ Turn(c) /\ calls[c].pc = "toolOutputSent" /\ NotAwaiting(c)
    /\ Apply(Effect(SetCall(c, [calls[c] EXCEPT !.pc = "loop"]),
                    [sessions EXCEPT ![calls[c].sessionId].operationContext = @ \ {calls[c].tool}],
                    activeOps, <<>>))
    /\ UNCHANGED <<input, sent, activeSessions, output, isDestroyed, timers100, timers500,
                   pendingResponses, nextRequestId, futures>>
    /\ UNCHANGED cbVars
    /\ UNCHANGED auxVars

\* executePrompt's catch block after the awaited sendErrorMessage
ErrorSent(c) ==
    /\ Turn(c) /\ calls[c].pc = "errorSend" /\ NotAwaiting(c)
    /\ Apply(Finish(c, calls[c], "end_turn"))
    /\ UNCHANGED <<input, sent, activeSessions, output, isDestroyed, timers100, timers500,
                   pendingResponses, nextRequestId, futures>>
    /\ UNCHANGED cbVars
    /\ UNCHANGED auxVars

\* the callback handleToolStart armed: the in_progress update
InProgressTimer ==
    /\ timers100 # <<>>
    /\ LET h == Head(timers100) IN
       Apply(Effect(calls, sessions, activeOps,
                    <<Update(h.sessionId, h.turn, "tool_call_update", h.toolCallId,
                             "in_progress", <<>>, -1)>>))
    /\ timers100' = Tail(timers100)
    /\ UNCHANGED <<input, sent, activeSessions, output, isDestroyed, timers500,
                   pendingResponses, nextRequestId, futures>>
    /\ UNCHANGED cbVars
    /\ UNCHANGED auxVars

\* the callback updatePlanForToolCompletion armed: the plan as it is now
PlanTimer ==
    /\ timers500 # <<>>
    /\ LET h == Head(timers500) IN
       Apply(Effect(calls, sessions, activeOps,
                    IF sessions[h.sessionId].currentPlan # <<>>
                    THEN <<Update(h.sessionId, h.turn, "plan", "", "",
                                  sessions[h.sessionId].currentPlan, -1)>>
                    ELSE <<>>))
    /\ timers500' = Tail(timers500)
    /\ UNCHANGED <<input, sent, activeSessions, output, isDestroyed, timers100,
                   pendingResponses, nextRequestId, futures>>
    /\ UNCHANGED cbVars
    /\ UNCHANGED auxVars

\* ------------------------------------------------- Connection, continued
\* the chained write runs: the frame is written unless the connection is destroyed
Write ==
    /\ writeQueue # <<>>
    /\ writeQueue' = Tail(writeQueue)
    /\ output' = IF isDestroyed THEN output ELSE Append(output, Head(writeQueue))
    /\ UNCHANGED <<input, sent, calls, sessions, activeOps, activeSessions, isDestroyed,
                   timers100, timers500, generated, pendingResponses, nextRequestId,
                   futures>>
    /\ UNCHANGED cbVars
    /\ UNCHANGED auxVars

\* the promise sendRequest creates; settles counts the calls of resolve and reject,
\* answered the response frames that found the request pending
NewFuture(id) == [id |-> id, state |-> "pending", code |-> 0, settles |-> 0, answered |-> 0]

\* resolve / reject of a promise: only the first call changes its state
Settle(f, state, code) ==
    IF f.state = "pending"
    THEN [f EXCEPT !.state = state, !.code = code, !.settles = @ + 1]
    ELSE [f EXCEPT !.settles = @ + 1]

\* #handleResponse on a pending entry: resolve on result, reject on error
AnswerFuture(f, m) ==
    LET g == [f EXCEPT !.answered = @ + 1] IN
    IF m.body = "result" THEN Settle(g, "resolved", 0)
    ELSE IF m.body = "error" THEN Settle(g, "rejected", m.code)
    ELSE g

\* #handleResponse
HandleResponse(m) ==
    /\ IF m.id \in pendingResponses
       THEN /\ futures' = [i \in DOMAIN futures |->
                             IF futures[i].id = m.id THEN AnswerFuture(futures[i], m)
                             ELSE futures[i]]
            /\ pendingResponses' = pendingResponses \ {m.id}
       ELSE UNCHANGED <<futures, pendingResponses>>
    /\ UNCHANGED nextRequestId

\* #sendParseError
ParseErrorResponse ==
    [Response(0, PARSE_ERROR, "", "") EXCEPT !.idText = "parse-error"]

\* sendRequest
SendRequest ==
    /\ Len(futures) < MaxRequests
    /\ IF isDestroyed
       THEN /\ futures' = Append(futures, [NewFuture(-1) EXCEPT !.state = "threw"])
            /\ UNCHANGED <<pendingResponses, nextRequestId, writeQueue>>
       ELSE /\ futures' = Append(futures, NewFuture(nextRequestId))
            /\ pendingResponses' = pendingResponses \cup {nextRequestId}
            /\ nextRequestId' = nextRequestId + 1
            /\ writeQueue' = SendMessage(writeQueue,
                    Frame("request", nextRequestId, "session/request_permission", "", ""))
    /\ UNCHANGED <<input, sent, calls, sessions, activeOps, activeSessions, output,
                   isDestroyed, timers100, timers500, generated>>
    /\ UNCHANGED cbVars
    /\ UNCHANGED auxVars

\* destroy(): every pending response is rejected and the map is cleared
Destroy ==
    /\ ~isDestroyed
    /\ isDestroyed' = TRUE
    /\ futures' = [i \in DOMAIN futures |->
                     IF futures[i].id \in pendingResponses
                     THEN Settle(futures[i], "rejected", CONNECTION_DESTROYED)
                     ELSE futures[i]]
    /\ pendingResponses' = {}
    /\ UNCHANGED <<input, sent, calls, sessions, activeOps, activeSessions, writeQueue,
                   output, timers100, timers500, generated, nextRequestId>>
    /\ UNCHANGED cbVars
    /\ UNCHANGED auxVars

\* The frames a peer (or a caller of the Agent interface) may send next.
Frames ==
    {Frame("request", sent + 1, "session/new", "", "")}
    \cup {Frame("request", sent + 1, "session/prompt", s, k) : s \in SessionIds, k \in PromptKinds}
    \cup {Frame("notification", 0, "session/cancel", s, "") : s \in SessionIds}

NewSessionFrames ==
    Cardinality({i \in DOMAIN input : input[i].method = "session/new"})
    + Cardinality({c \in DOMAIN calls : calls[c].method = "session/new"})

Sendable(m) ==
    /\ sent < MaxFrames
    /\ m.method = "session/new" => NewSessionFrames < Cardinality(SessionIds)

\* the peer writes a frame on the agent's input
PeerSend ==
    \E m \in Frames :
        /\ Sendable(m)
        /\ input' = Append(input, m)
        /\ sent' = sent + 1
        /\ UNCHANGED <<calls, sessions, activeOps, activeSessions, writeQueue, output,
                       isDestroyed, timers100, timers500, generated, pendingResponses,
                       nextRequestId, futures>>
        /\ UNCHANGED cbVars
        /\ UNCHANGED auxVars

\* The lines a peer may write when it also answers outbound requests and sends
\* malformed input: requests with params the schema rejects, responses with a
\* result, an error or neither, and lines that are not JSON.
Lines ==
    {[Frame("request", sent + 1, "session/new", "", "") EXCEPT !.params = p] :
        p \in {"valid", "invalid"}}
    \cup {[Frame("request", sent + 1, "session/prompt", s, "simple") EXCEPT !.params = "invalid"] :
            s \in SessionIds}
    \cup {[Frame("response", id, "", "", "") EXCEPT
                !.body = b, !.code = IF b = "error" THEN INTERNAL_ERROR ELSE 0] :
            id \in 0..(MaxRequests - 1), b \in {"result", "error", ""}}
    \cup {Frame("garbage", 0, "", "", "")}

\* the peer writes a line on the agent's input
PeerSendLine ==
    \E m \in Lines :
        /\ Sendable(m)
        /\ input' = Append(input, m)
        /\ sent' = sent + 1
        /\ UNCHANGED <<calls, sessions, activeOps, activeSessions, writeQueue, output,
                       isDestroyed, timers100, timers500, generated, pendingResponses,
                       nextRequestId, futures>>
        /\ UNCHANGED cbVars
        /\ UNCHANGED auxVars

\* #receive takes the next line: JSON.parse, then #processMessage, both awaited
Receive ==
    /\ ~isDestroyed
    /\ input # <<>>
    /\ ReaderIdle
    /\ LET m == Head(input) IN
       \/ /\ m.type \in {"request", "notification"}
          /\ Invoke(Len(calls) + 1, m, "conn")
          /\ UNCHANGED reqVars
       \/ /\ m.type = "response"
          /\ HandleResponse(m)
          /\ UNCHANGED <<calls, sessions, activeOps, activeSessions, writeQueue,
                         timers100, timers500, generated>>
       \/ /\ m.type = "garbage"
          /\ writeQueue' = SendMessage(writeQueue, ParseErrorResponse)
          /\ UNCHANGED <<calls, sessions, activeOps, activeSessions, timers100,
                         timers500, generated, pendingResponses, nextRequestId, futures>>
    /\ input' = Tail(input)
    /\ UNCHANGED <<sent, output, isDestroyed>>
    /\ UNCHANGED cbVars
    /\ UNCHANGED auxVars

\* a method of the Agent interface is called directly
DirectCall ==
    \E m \in Frames :
        /\ Sendable(m)
        /\ Invoke(Len(calls) + 1, m, "direct")
        /\ sent' = sent + 1
        /\ UNCHANGED <<input, output, isDestroyed, pendingResponses, nextRequestId,
                       futures>>
        /\ UNCHANGED cbVars
        /\ UNCHANGED auxVars

TurnStep ==
    \E c \in 1..MaxFrames :
        \/ PreflightStep(c)
        \/ QueryReturn(c)
        \/ BackendMessage(c)
        \/ BackendEnd(c)
        \/ ToolStartSent(c)
        \/ ToolOutputSent(c)
        \/ ErrorSent(c)

Next ==
    \/ PeerSend
    \/ Receive
    \/ TurnStep
    \/ InProgressTimer
    \/ PlanTimer
    \/ Write
    \/ Destroy

Spec == Init /\ [][Next]_vars

NextAgent ==
    \/ DirectCall
    \/ \E c \in 1..MaxFrames : AbortWaitDone(c)
    \/ TurnStep
    \/ InProgressTimer
    \/ PlanTimer
    \/ Write

SpecAgent == Init /\ [][NextAgent]_vars

\* The Connection with a peer that answers outbound requests and sends malformed
\* lines, and an agent side that issues outbound requests.
NextConn ==
    \/ PeerSendLine
    \/ Receive
    \/ SendRequest
    \/ Write
    \/ Destroy

SpecConn == Init /\ [][NextConn]_vars

\* a caller awaits circuitBreaker.execute(..) on a stand-alone breaker
Execute ==
    /\ Len(cbLog) < MaxCalls
    /\ \E fnOk \in BOOLEAN :
         LET r == execute(breaker, now, fnOk) IN
         /\ breaker' = r.breaker
         /\ cbLog' = Append(cbLog, LogEntry(breaker, now, r, 0))
    /\ UNCHANGED <<input, sent, calls, sessions, activeOps, activeSessions, writeQueue,
                   output, isDestroyed, timers100, timers500, generated,
                   pendingResponses, nextRequestId, futures, now, ticks>>
    /\ UNCHANGED auxVars

\* Time passes between two calls.  The clock is read only inside execute, so it
\* makes no difference at which point between two calls of execute it advances.
Tick ==
    /\ ticks < MaxTicks
    /\ \A c \in DOMAIN calls : calls[c].pc = "done"
    /\ \E d \in Delays(breaker.opts) : now' = now + d
    /\ ticks' = ticks + 1
    /\ UNCHANGED <<input, sent, calls, sessions, activeOps, activeSessions, writeQueue,
                   output, isDestroyed, timers100, timers500, generated,
                   pendingResponses, nextRequestId, futures, breaker, cbLog>>
    /\ UNCHANGED auxVars

\* The stand-alone breaker of the test suite, called sequentially.  forceOpen and
\* forceClosed are left out: nothing in the repository calls them.
NextBreaker ==
    \/ Execute
    \/ Tick

SpecBreaker == InitBreaker /\ [][NextBreaker]_vars

\* execute is called on a stand-alone breaker and runs up to `await this.fn(args)`
CallBegin ==
    /\ Len(cbLog) < MaxCalls
    /\ LET a == admit(breaker, now) IN
       /\ breaker' = a.breaker
       /\ cbLog' = Append(cbLog,
              IF a.invoked
              THEN [LogEntry(breaker, now, a, 0) EXCEPT !.post = "pending", !.settledIn = ""]
              ELSE LogEntry(breaker, now, a, 0))
    /\ UNCHANGED <<input, sent, calls, sessions, activeOps, activeSessions, writeQueue,
                   output, isDestroyed, timers100, timers500, generated,
                   pendingResponses, nextRequestId, futures, now, ticks>>
    /\ UNCHANGED auxVars

\* the wrapped function of a call in flight settles and execute runs to its end
CallEnd ==
    /\ \E i \in DOMAIN cbLog, fnOk \in BOOLEAN :
         LET r == settle(breaker, now, fnOk) IN
         /\ cbLog[i].post = "pending"
         /\ breaker' = r.breaker
         /\ cbLog' = [cbLog EXCEPT ![i].post = r.breaker.state, ![i].error = r.error,
                                    ![i].failures = r.breaker.failures,
                                    ![i].settledIn = breaker.state]
    /\ UNCHANGED <<input, sent, calls, sessions, activeOps, activeSessions, writeQueue,
                   output, isDestroyed, timers100, timers500, generated,
                   pendingResponses, nextRequestId, futures, now, ticks>>
    /\ UNCHANGED auxVars

\* a stand-alone breaker whose callers do not wait for one another
NextOverlap ==
    \/ CallBegin
    \/ CallEnd
    \/ Tick

SpecOverlap == InitBreaker /\ [][NextOverlap]_vars

\* what a client that keeps to one session calls next: newSession until it has a
\* session, then prompt with a simple prompt
ClientFrames ==
    IF DOMAIN sessions = {}
    THEN {Frame("request", sent + 1, "session/new", "", "")}
    ELSE {Frame("request", sent + 1, "session/prompt", s, "simple") : s \in DOMAIN sessions}

\* a client that awaits each call of the Agent interface before it makes the next
ClientCall ==
    /\ sent < MaxPrompts + 1
    /\ \A c \in DOMAIN calls : calls[c].pc = "done"
    /\ \E m \in ClientFrames : Invoke(Len(calls) + 1, m, "direct")
    /\ sent' = sent + 1
    /\ UNCHANGED <<input, output, isDestroyed, pendingResponses, nextRequestId, futures>>
    /\ UNCHANGED cbVars
    /\ UNCHANGED auxVars

\* The agent during an outage of the backend: a sequential client, and a backend
\* whose query() fails or returns a stream without messages.
NextOutage ==
    \/ ClientCall
    \/ \E c \in 1..MaxPrompts + 1 :
          \/ QueryReturn(c)
          \/ BackendEnd(c)
          \/ ErrorSent(c)
    \/ Write
    \/ Tick

SpecOutage == Init /\ [][NextOutage]_vars

\* ------------------------------------------- a stand-alone ResourceManager
\* a ResourceManager constructed with explicit limits
InitResource ==
    /\ Constructed
    /\ breaker = CircuitBreaker(CLAUDE_SDK_CIRCUIT_OPTIONS)
    /\ rm \in {ResourceManager(SmallLimits), ResourceManager(LowFdLimits)}
    /\ rmLast = NoRmCall
    /\ FreshMonitor
    /\ NoInput
    /\ NoLoads
    /\ UnusedExtra

RmQuiet == UNCHANGED <<agentVars, reqVars, cbVars, cmVars, ioVars, loadVars, extraVars>>

CanStartOperation ==
    /\ \E rss \in RssValues(rm.limits) :
         rmLast' = RmCall("canStartOperation", 0, rss, rm, rmCanStartOperation(rm, rss))
    /\ UNCHANGED rm
    /\ RmQuiet

StartOperation ==
    /\ \E operationId \in OperationIds, rss \in RssValues(rm.limits) :
         LET r == rmStartOperation(rm, operationId, rss) IN
         /\ rm' = r.rm
         /\ rmLast' = RmCall("startOperation", operationId, rss, rm, r.result)
    /\ RmQuiet

FinishOperation ==
    /\ \E operationId \in OperationIds :
         /\ rm' = rmFinishOperation(rm, operationId)
         /\ rmLast' = RmCall("finishOperation", operationId, 0, rm, TRUE)
    /\ RmQuiet

AddSession ==
    /\ \E sessionId \in RmSessionIds :
         LET r == rmAddSession(rm, sessionId) IN
         /\ rm' = r.rm
         /\ rmLast' = RmCall("addSession", sessionId, 0, rm, r.result)
    /\ RmQuiet

RemoveSession ==
    /\ \E sessionId \in RmSessionIds :
         /\ rm' = rmRemoveSession(rm, sessionId)
         /\ rmLast' = RmCall("removeSession", sessionId, 0, rm, TRUE)
    /\ RmQuiet

NextResource ==
    \/ CanStartOperation
    \/ StartOperation
    \/ FinishOperation
    \/ AddSession
    \/ RemoveSession

SpecResource == InitResource /\ [][NextResource]_vars

\* -------------------------------------------- a stand-alone ContextMonitor
InitMonitor ==
    /\ Constructed
    /\ breaker = CircuitBreaker(CLAUDE_SDK_CIRCUIT_OPTIONS)
    /\ FreshResourceManager
    /\ FreshMonitor
    /\ NoInput
    /\ NoLoads
    /\ UnusedExtra

CmQuiet == UNCHANGED <<agentVars, reqVars, cbVars, rmVars, ioVars, loadVars, extraVars>>

AddMessage ==
    /\ Len(cmLog) < MaxMessages
    /\ \E sessionId \in MonitorSessionIds, length \in ContentLengths :
         LET r == addMessage(monitor, sessionId, length) IN
         /\ monitor' = r.monitor
         /\ cmLog' = Append(cmLog,
                [sessionId |-> sessionId, length |-> length,
                 before |-> IF sessionId \in DOMAIN monitor
                            THEN monitor[sessionId].estimatedTokens ELSE 0,
                 after |-> r.monitor[sessionId].estimatedTokens,
                 returns |-> r.returns])
    /\ CmQuiet

\* clearSession, and cleanupInactiveSessions removing one session
ClearSession ==
    /\ \E sessionId \in DOMAIN monitor : monitor' = clearSession(monitor, sessionId)
    /\ UNCHANGED cmLog
    /\ CmQuiet

ResetSession ==
    /\ \E sessionId \in DOMAIN monitor :
         /\ monitor[sessionId] # NoStats
         /\ monitor' = resetSession(monitor, sessionId)
    /\ UNCHANGED cmLog
    /\ CmQuiet

NextMonitor ==
    \/ AddMessage
    \/ ClearSession
    \/ ResetSession

SpecMonitor == InitMonitor /\ [][NextMonitor]_vars

\* ------------------------------------ the two transports on one input stream
\* ProtocolIO (attached to stdin) and a Connection are fed the same chunks
InitFraming ==
    /\ Constructed
    /\ breaker = CircuitBreaker(CLAUDE_SDK_CIRCUIT_OPTIONS)
    /\ FreshResourceManager
    /\ FreshMonitor
    /\ wire \in Wires(MaxLines) \ {<<>>}
    /\ eol \in {"\n", "\r\n"}
    /\ FreshTransport
    /\ NoLoads
    /\ UnusedExtra

\* a chunk arrives: the 'data' event of stdin, and one round of `for await`
Chunk ==
    /\ ~ioDisposed
    /\ \E to \in Cuts(wire) :
         /\ to > received
         /\ received' = to
         /\ LET r == onChunk(wire, ioStart, ioEmitted, ioWarned, to) IN
            /\ ioStart' = r.start
            /\ ioEmitted' = r.emitted
            /\ ioWarned' = r.warned
         /\ LET c == receive(wire, eol, connStart, connProcessed, to) IN
            /\ connStart' = c.start
            /\ connProcessed' = c.processed
    /\ UNCHANGED <<wire, eol, ioDisposed, exited>>
    /\ UNCHANGED <<agentVars, reqVars, cbVars, rmVars, cmVars, loadVars, extraVars>>

\* the input ends: the 'end' event of stdin disposes the ProtocolIO
StdinEnd ==
    /\ ~ioDisposed /\ ~exited
    /\ received = FrameStart(wire, Len(wire) + 1)
    /\ ioDisposed' = TRUE
    /\ UNCHANGED <<wire, eol, received, ioStart, ioEmitted, ioWarned, connStart,
                   connProcessed, exited>>
    /\ UNCHANGED <<agentVars, reqVars, cbVars, rmVars, cmVars, loadVars, extraVars>>

NextFraming ==
    \/ Chunk
    \/ StdinEnd

SpecFraming == InitFraming /\ [][NextFraming]_vars

\* ------------------------------------------------------------- shutdown
\* shutdown(sig) of main, on SIGINT, SIGTERM, an uncaught exception or an
\* unhandled rejection: io.dispose(), then process.exit(0), whose 'exit' event
\* runs globalResourceManager.destroy().  Nothing on this path touches the
\* agent: its sessions, their abort controllers and the write queue stay as
\* they are.
Shutdown ==
    /\ ~exited
    /\ exited' = TRUE
    /\ ioDisposed' = TRUE
    /\ activeOps' = {}
    /\ activeSessions' = {}
    /\ UNCHANGED <<input, sent, calls, sessions, writeQueue, output, isDestroyed,
                   timers100, timers500, generated>>
    /\ UNCHANGED <<wire, eol, received, ioStart, ioEmitted, ioWarned, connStart,
                   connProcessed>>
    /\ UNCHANGED <<reqVars, cbVars, rmVars, cmVars, loadVars, extraVars>>

\* The agent with a sequential client until the input ends or the process is
\* told to stop.  After the end of input the client calls nothing more, and the
\* turns in flight go on.
NextShutdown ==
    \/ ~exited /\ ~ioDisposed /\ ClientCall
    \/ /\ ~exited
       /\ \E c \in 1..MaxPrompts + 1 :
             \/ QueryReturn(c)
             \/ BackendEnd(c)
             \/ ErrorSent(c)
    \/ ~exited /\ Write
    \/ StdinEnd
    \/ Shutdown

SpecShutdown == Init /\ [][NextShutdown]_vars

\* --------------------------------------------- an agent asked to load sessions
\* a new agent; .acp-sessions may hold state files of an earlier process
InitLoad ==
    /\ Constructed
    /\ breaker = CircuitBreaker(CLAUDE_SDK_CIRCUIT_OPTIONS)
    /\ FreshResourceManager
    /\ FreshMonitor
    /\ NoInput
    /\ smSessions = {}
    /\ disk \in {{}, {2}, {1, 3}}
    /\ loadLast = NoLoad
    /\ UnusedExtra

\* the id after the last one the agent holds
NextId == Cardinality(DOMAIN sessions) + 1

\* A client calls loadSession, for the first or the last session the agent holds
\* or for the next id.  The method has no await in it: the call runs from start
\* to end in one step.
LoadSessionCall ==
    /\ \E sessionId \in ((DOMAIN sessions \cap {1, NextId - 1}) \cup {NextId}) \cap LoadIds :
         LET r == loadSession(sessions, activeSessions, smSessions, disk, sessionId) IN
         /\ sessions' = r.sessions
         /\ activeSessions' = r.activeSessions
         /\ smSessions' = r.smSessions
         /\ disk' = r.disk
         /\ loadLast' = [sessionId |-> sessionId, before |-> sessions,
                          registered |-> Cardinality(activeSessions),
                          known |-> sessionId \in smSessions \cup disk,
                          error |-> r.error]
    /\ UNCHANGED <<input, sent, calls, activeOps, writeQueue, output, isDestroyed,
                   timers100, timers500, generated>>
    /\ UNCHANGED <<reqVars, cbVars, rmVars, cmVars, ioVars, extraVars>>

NextLoad == LoadSessionCall

SpecLoad == InitLoad /\ [][NextLoad]_vars

\* ------------------------------------------- inline permission markers
\* A prompt text is a sequence of pieces: each piece is one of the three markers
\* or text that holds no marker.
ACCEPT_EDITS == "[ACP:PERMISSION:ACCEPT_EDITS]"
BYPASS == "[ACP:PERMISSION:BYPASS]"
DEFAULT == "[ACP:PERMISSION:DEFAULT]"
Markers == {ACCEPT_EDITS, BYPASS, DEFAULT}
Pieces == Markers \cup {"fix the bug"}

\* String.prototype.includes for a marker
includes(promptText, marker) == \E i \in DOMAIN promptText : promptText[i] = marker

\* the modes ACP_PERMISSION_MODE may name
validModes == {"default", "acceptEdits", "bypassPermissions", "plan"}

\* ClaudeACPAgent.parsePromptPermissionMode; currentMode is never empty, newSession
\* and loadSession set it to defaultPermissionMode
parsePromptPermissionMode(promptText, currentMode) ==
    IF includes(promptText, ACCEPT_EDITS) THEN "acceptEdits"
    ELSE IF includes(promptText, BYPASS) THEN "bypassPermissions"
    ELSE IF includes(promptText, DEFAULT) THEN "default"
    ELSE currentMode

RECURSIVE PromptTexts(_)
PromptTexts(n) ==
    IF n = 0 THEN {<<>>}
    ELSE PromptTexts(n - 1) \cup
         {Append(t, p) : t \in {u \in PromptTexts(n - 1) : Len(u) = n - 1}, p \in Pieces}

\* executePrompt's permission mode switching for a prompt with this text
ExecutePromptMode ==
    \E promptText \in PromptTexts(MaxPieces) :
        /\ permissionMode' = parsePromptPermissionMode(promptText, permissionMode)
        /\ permLast' = [text |-> promptText, previous |-> permissionMode,
                        mode |-> parsePromptPermissionMode(promptText, permissionMode)]
        /\ UNCHANGED <<agentVars, reqVars, cbVars, rmVars, cmVars, ioVars, loadVars, rtVars,
                       orchVars>>

NextPermission == ExecutePromptMode

\* the session starts in defaultPermissionMode, which the environment may set
InitPermission ==
    /\ Constructed
    /\ breaker = CircuitBreaker(CLAUDE_SDK_CIRCUIT_OPTIONS)
    /\ FreshResourceManager
    /\ FreshMonitor
    /\ NoInput
    /\ NoLoads
    /\ FreshRuntime
    /\ NotStarted
    /\ permissionMode \in validModes
    /\ permLast = NoPermPrompt

SpecPermission == InitPermission /\ [][NextPermission]_vars

\* ------------------------------------------- a stand-alone Runtime
\* A variant of schedule that calls run() whether or not a run loop is active.
scheduleAlwaysRun(r, task) ==
    IF Len(r.queue) >= r.capacity
    THEN [runtime |-> [r EXCEPT !.dropped = @ + 1], returns |-> FALSE, runs |-> FALSE]
    ELSE [runtime |-> [r EXCEPT !.queue = Append(@, task), !.running = TRUE, !.pc = "loop"],
          returns |-> TRUE, runs |-> TRUE]

\* Runtime.schedule; runs tells whether it called run(), which sets running and
\* arrives at the head of its loop
schedule(r, task) ==
    IF Len(r.queue) >= r.capacity
    THEN [runtime |-> [r EXCEPT !.dropped = @ + 1], returns |-> FALSE, runs |-> FALSE]
    ELSE IF ~r.running
         THEN [runtime |-> [r EXCEPT !.queue = Append(@, task), !.running = TRUE,
                                     !.pc = "loop"],
               returns |-> TRUE, runs |-> TRUE]
         ELSE [runtime |-> [r EXCEPT !.queue = Append(@, task)],
               returns |-> TRUE, runs |-> FALSE]

\* A variant of afterTask without the try/catch around the task: what a task throws
\* leaves the loop through the finally block.
afterTaskUncaught(r, threw, slow) ==
    IF threw THEN [r EXCEPT !.running = FALSE, !.pc = "idle"]
    ELSE IF slow \/ 2 * Len(r.queue) > r.capacity THEN [r EXCEPT !.pc = "yield"]
    ELSE [r EXCEPT !.pc = "loop"]

\* run() from the end of a task to the head of the loop: what the task threw is
\* caught and logged; the loop yields to the event loop when the task took more
\* than 8 ms (slow) or the queue is more than half full
afterTask(r, threw, slow) ==
    IF slow \/ 2 * Len(r.queue) > r.capacity THEN [r EXCEPT !.pc = "yield"]
    ELSE [r EXCEPT !.pc = "loop"]

\* what calling a task gives: it returns, it throws, or it returns a promise
TaskResults == {"returns", "throws", "promise"}

RtQuiet == UNCHANGED <<agentVars, reqVars, cbVars, rmVars, cmVars, ioVars, loadVars,
                       permVars, orchVars>>

\* schedule is called with a new task
Schedule ==
    /\ rtLog.next <= MaxTasks
    /\ LET r == schedule(runtime, rtLog.next) IN
       /\ runtime' = r.runtime
       /\ rtLog' = [rtLog EXCEPT !.next = @ + 1,
                                 !.refused = IF r.returns THEN @ ELSE @ \cup {rtLog.next},
                                 !.loops = IF r.runs THEN @ + 1 ELSE @]
    /\ RtQuiet

\* run(): `const t = this.queue.shift()!; const res = t();`
TaskStart ==
    /\ runtime.pc = "loop" /\ runtime.queue # <<>>
    /\ LET t == Head(runtime.queue)
           r == [runtime EXCEPT !.queue = Tail(@)]
       IN  \E res \in TaskResults, slow \in BOOLEAN :
             IF res = "promise"
             THEN /\ runtime' = [r EXCEPT !.pc = "awaitTask"]
                  /\ rtLog' = [rtLog EXCEPT !.order = Append(@, t),
                                            !.inFlight = @ \cup {t}]
             ELSE /\ runtime' = afterTask(r, res = "throws", slow)
                  /\ rtLog' = [rtLog EXCEPT !.order = Append(@, t),
                                            !.threw = (res = "throws")]
    /\ RtQuiet

\* the promise of the task run() awaits is fulfilled or rejected
TaskSettle ==
    /\ runtime.pc = "awaitTask"
    /\ \E threw \in BOOLEAN, slow \in BOOLEAN :
         /\ runtime' = afterTask(runtime, threw, slow)
         /\ rtLog' = [rtLog EXCEPT !.inFlight = @ \ {rtLog.order[Len(rtLog.order)]},
                                   !.threw = threw]
    /\ RtQuiet

\* the setImmediate run() awaits fires
Resume ==
    /\ runtime.pc = "yield"
    /\ runtime' = [runtime EXCEPT !.pc = "loop"]
    /\ UNCHANGED rtLog
    /\ RtQuiet

\* run(): the queue is empty, the loop is left and the finally block runs
LoopEnd ==
    /\ runtime.pc = "loop" /\ runtime.queue = <<>>
    /\ runtime' = [runtime EXCEPT !.running = FALSE, !.pc = "idle"]
    /\ rtLog' = [rtLog EXCEPT !.loops = @ - 1]
    /\ RtQuiet

NextRuntime ==
    \/ Schedule
    \/ TaskStart
    \/ TaskSettle
    \/ Resume
    \/ LoopEnd

\* a Runtime of the least capacity
InitRuntime ==
    /\ Constructed
    /\ breaker = CircuitBreaker(CLAUDE_SDK_CIRCUIT_OPTIONS)
    /\ FreshResourceManager
    /\ FreshMonitor
    /\ NoInput
    /\ NoLoads
    /\ NoPrompts
    /\ NotStarted
    /\ runtime = Runtime(0)
    /\ rtLog = NoTasks

SpecRuntime == InitRuntime /\ [][NextRuntime]_vars

\* The event loop runs every continuation that is ready, and the promise run()
\* awaits settles.
SpecRuntimeFair ==
    /\ SpecRuntime
    /\ WF_vars(TaskStart) /\ WF_vars(TaskSettle) /\ WF_vars(Resume) /\ WF_vars(LoopEnd)

\* -------------------------------------------------------- Orchestrator
\* The lines a peer writes, by what handleMessage does with the decoded message:
\* "null" is the JSON text null, "other" any type handleMessage does not know.
MessageTypes == {"ping", "permission.check", "codex.complete", "other", "null"}

\* the types handleMessage answers after awaiting the Codex client
Awaited == {"codex.complete"}

\* the type of the reply; ok tells whether the awaited Codex call was fulfilled
ReplyType(type, ok) ==
    CASE type = "ping" -> "pong"
      [] type = "permission.check" -> "permission.result"
      [] type = "codex.complete" -> IF ok THEN "codex.result" ELSE "codex.error"
      [] OTHER -> "ack"

\* ProtocolIO.send: the 'send' listener writes the line unless the io is disposed
\* (dispose also removes the listener)
send(out, disposed, m) == IF disposed THEN out ELSE Append(out, m)

OrchQuiet == UNCHANGED <<agentVars, reqVars, cbVars, rmVars, cmVars, loadVars, permVars>>

IoRest == <<wire, eol, received, ioStart, ioEmitted, ioWarned, connStart, connProcessed,
            exited>>

\* Orchestrator.start, after the awaited detection of the Codex CLI
OrchStart ==
    /\ ~orchStarted
    /\ orchStarted' = TRUE
    /\ UNCHANGED <<decoded, replies, rtVars, ioVars>>
    /\ OrchQuiet

\* onChunk decodes a line and emits 'message'; the listener start() attached
\* schedules handleMessage(msg) as task k, k the message's place in decoded
Decode ==
    /\ ~ioDisposed
    /\ Len(decoded) < MaxDecoded
    /\ \E type \in MessageTypes :
         LET k == Len(decoded) + 1 IN
         /\ decoded' = Append(decoded, [id |-> k, type |-> type, heard |-> orchStarted])
         /\ IF orchStarted
            THEN LET r == schedule(runtime, k) IN
                 /\ runtime' = r.runtime
                 /\ rtLog' = [rtLog EXCEPT
                                 !.next = k + 1,
                                 !.refused = IF r.returns THEN @ ELSE @ \cup {k},
                                 !.loops = IF r.runs THEN @ + 1 ELSE @]
            ELSE UNCHANGED rtVars
    /\ UNCHANGED <<orchStarted, replies, ioVars>>
    /\ OrchQuiet

\* run() calls handleMessage(msg), which runs to its first await or to its end:
\* the types answered at once are answered here; reading msg.id of null throws,
\* which rejects the promise handleMessage returns
HandleMessageStart ==
    /\ runtime.pc = "loop" /\ runtime.queue # <<>>
    /\ LET k == Head(runtime.queue)
           msg == decoded[k]
       IN  /\ runtime' = [runtime EXCEPT !.queue = Tail(@), !.pc = "awaitTask"]
           /\ rtLog' = [rtLog EXCEPT !.order = Append(@, k), !.inFlight = @ \cup {k}]
           /\ replies' = IF msg.type \in Awaited \cup {"null"} THEN replies
                         ELSE send(replies, ioDisposed,
                                   [id |-> msg.id, type |-> ReplyType(msg.type, TRUE)])
    /\ UNCHANGED <<orchStarted, decoded, ioVars>>
    /\ OrchQuiet

\* the promise handleMessage returned settles: for an awaited type the Codex call
\* has settled and its result or its error is sent first
HandleMessageSettle ==
    /\ runtime.pc = "awaitTask"
    /\ LET k == rtLog.order[Len(rtLog.order)]
           msg == decoded[k]
       IN  \E ok \in BOOLEAN, slow \in BOOLEAN :
             /\ runtime' = afterTask(runtime, msg.type = "null", slow)
             /\ rtLog' = [rtLog EXCEPT !.inFlight = @ \ {k}, !.threw = (msg.type = "null")]
             /\ replies' = IF msg.type \in Awaited
                           THEN send(replies, ioDisposed,
                                     [id |-> msg.id, type |-> ReplyType(msg.type, ok)])
                           ELSE replies
    /\ UNCHANGED <<orchStarted, decoded, ioVars>>
    /\ OrchQuiet

\* stdin ends: ProtocolIO.dispose
Dispose ==
    /\ ~ioDisposed
    /\ ioDisposed' = TRUE
    /\ UNCHANGED IoRest
    /\ UNCHANGED <<orchVars, rtVars>>
    /\ OrchQuiet

\* Resume and LoopEnd of the Runtime, with the Orchestrator left as it is
RuntimeStep == Resume \/ LoopEnd

NextOrchestrator ==
    \/ OrchStart
    \/ Decode
    \/ HandleMessageStart
    \/ HandleMessageSettle
    \/ RuntimeStep
    \/ Dispose

\* main: new ProtocolIO, new Runtime(logger), new Orchestrator, io.attach
InitOrchestrator ==
    /\ Constructed
    /\ breaker = CircuitBreaker(CLAUDE_SDK_CIRCUIT_OPTIONS)
    /\ FreshResourceManager
    /\ FreshMonitor
    /\ NoInput
    /\ NoLoads
    /\ NoPrompts
    /\ FreshRuntime
    /\ NotStarted

SpecOrchestrator == InitOrchestrator /\ [][NextOrchestrator]_vars

\* ------------------------------------------------------- a planned turn
\* the tools the backend runs in a planned turn
PlanToolIds == {"t1", "t2"}

\* a client that makes a session and sends it one prompt that needs a plan
PlanClientFrames ==
    IF DOMAIN sessions = {}
    THEN {Frame("request", sent + 1, "session/new", "", "")}
    ELSE {Frame("request", sent + 1, "session/prompt", s, "plan") : s \in DOMAIN sessions}

PlanClientCall ==
    /\ sent < 2
    /\ \A c \in DOMAIN calls : calls[c].pc = "done"
    /\ \E m \in PlanClientFrames : Invoke(Len(calls) + 1, m, "direct")
    /\ sent' = sent + 1
    /\ UNCHANGED <<input, output, isDestroyed, pendingResponses, nextRequestId, futures>>
    /\ UNCHANGED cbVars
    /\ UNCHANGED auxVars

NextPlan ==
    \/ PlanClientCall
    \/ \E c \in 1..2 :
          \/ PreflightStep(c)
          \/ QueryReturn(c)
          \/ BackendMessageWithin(c, MaxPlanEvents, PlanToolIds)
          \/ BackendEnd(c)
          \/ ToolStartSent(c)
          \/ ToolOutputSent(c)
          \/ ErrorSent(c)
    \/ InProgressTimer
    \/ PlanTimer
    \/ Write

SpecPlan == Init /\ [][NextPlan]_vars

\* --------------------------------- outbound requests during a handler
\* a handler the reader dispatched is still running
HandlerRunning == \E c \in DOMAIN calls : calls[c].via = "conn" /\ calls[c].pc # "done"

\* sendRequest is called while a handler is running
SendRequestInHandler ==
    /\ HandlerRunning
    /\ Len(futures) < MaxOutbound
    /\ SendRequest

\* a peer that keeps to one session and to simple prompts writes a request on the
\* agent's input
PeerRequest ==
    \E m \in ClientFrames :
        /\ Sendable(m)
        /\ input' = Append(input, m)
        /\ sent' = sent + 1
        /\ UNCHANGED <<calls, sessions, activeOps, activeSessions, writeQueue, output,
                       isDestroyed, timers100, timers500, generated, pendingResponses,
                       nextRequestId, futures>>
        /\ UNCHANGED cbVars
        /\ UNCHANGED auxVars

\* the outbound requests written to the peer that it has not answered yet
Unanswered ==
    {id \in pendingResponses :
        /\ \E i \in DOMAIN output : output[i].type = "request" /\ output[i].id = id
        /\ \A i \in DOMAIN input : ~(input[i].type = "response" /\ input[i].id = id)}

\* the peer answers an outbound request it has read, with a result or an error
PeerAnswer ==
    \E id \in Unanswered, b \in {"result", "error"} :
        /\ input' = Append(input, [Frame("response", id, "", "", "") EXCEPT
                                      !.body = b,
                                      !.code = IF b = "error" THEN INTERNAL_ERROR ELSE 0])
        /\ UNCHANGED <<sent, calls, sessions, activeOps, activeSessions, writeQueue, output,
                       isDestroyed, timers100, timers500, generated, pendingResponses,
                       nextRequestId, futures>>
        /\ UNCHANGED cbVars
        /\ UNCHANGED auxVars

NextOutbound ==
    \/ PeerRequest
    \/ PeerAnswer
    \/ Receive
    \/ \E c \in 1..MaxFrames :
          \/ QueryReturn(c)
          \/ BackendMessage(c)
          \/ BackendEnd(c)
          \/ ToolStartSent(c)
          \/ ToolOutputSent(c)
          \/ ErrorSent(c)
    \/ SendRequestInHandler
    \/ InProgressTimer
    \/ Write

SpecOutbound == Init /\ [][NextOutbound]_vars

\* ================================================================ claims
\* the response frames written for request id
Responses(id) == {i \in DOMAIN output : output[i].type = "response" /\ output[i].id = id}

\* the reader has finished with the request of call c: the handler has settled and
\* the chained write of its response has run
Answered(c) ==
    /\ calls[c].via = "conn" /\ calls[c].id # 0 /\ calls[c].pc = "done"
    /\ \A i \in DOMAIN writeQueue :
          ~(writeQueue[i].type = "response" /\ writeQueue[i].id = calls[c].id)

Executing(s) == {c \in InFlight(s) : calls[c].pc \notin {"start", "abortWait"}}

\* C2 as stated: a session never has two executions of session/prompt running
\* at the same time.
C2_AtMostOneTurn == \A s \in SessionIds : Cardinality(Executing(s)) <= 1

\* C3 as stated: a session/prompt made while the session has a turn in flight is
\* rejected at once with the session-busy code -32002, and the turn in flight
\* keeps its cancel token.
C3_BusyRejected ==
    \A c \in DOMAIN calls :
        (calls[c].method = "session/prompt" /\ calls[c].overlapped) =>
            /\ calls[c].pc = "done" /\ calls[c].code = SESSION_BUSY
            /\ \A k \in InFlight(calls[c].sessionId) :
                  k < c /\ ~calls[k].cancelRequested =>
                      sessions[calls[c].sessionId].abortController # "aborted"

\* C4 as stated: a session/prompt that was pending when session/cancel was
\* received resolves with stopReason cancelled.
C4_CancelResolvesCancelled ==
    \A c \in DOMAIN calls :
        (calls[c].method = "session/prompt" /\ calls[c].cancelRequested
            /\ calls[c].pc = "done") => calls[c].stopReason = "cancelled"

\* C5 as stated: while a session/prompt handler is running, a frame waiting on the
\* input of a live connection can be read and dispatched.
C5_ReaderNotBlocked ==
    (/\ input # <<>> /\ ~isDestroyed
     /\ \E c \in DOMAIN calls : calls[c].via = "conn"
            /\ calls[c].method = "session/prompt" /\ calls[c].pc # "done")
        => ENABLED Receive

\* C6 as stated: no session/update of a turn is written after the response to
\* that turn's session/prompt.
C6_ResponseAfterUpdates ==
    \A i, j \in DOMAIN output :
        (/\ output[i].type = "response" /\ output[i].stopReason # ""
         /\ output[j].type = "notification" /\ output[j].turn = output[i].id) => j < i

Terminal == {"completed", "failed"}

\* the positions in seq of the terminal tool_call_update frames of turn c for tool t
TerminalUpdates(seq, c, t) ==
    {i \in DOMAIN seq : /\ seq[i].upd = "tool_call_update" /\ seq[i].turn = c
                        /\ seq[i].toolCallId = t /\ seq[i].status \in Terminal}

\* C7 as stated: at most one terminal tool_call_update is written for a tool call,
\* and none is written after the response of its turn.
C7_OneTerminalUpdate ==
    \A c \in DOMAIN calls : \A t \in ToolIds :
        /\ Cardinality(TerminalUpdates(output, c, t)) <= 1
        /\ \A i \in TerminalUpdates(output, c, t) : \A j \in Responses(calls[c].id) : i < j

\* C8 as stated: among the frames written for one tool call the in_progress update
\* comes after the pending tool_call and never after the terminal update.
C8_StatusOrder ==
    \A i, j \in DOMAIN output :
        (/\ i < j /\ output[i].turn = output[j].turn
         /\ output[i].toolCallId # "" /\ output[i].toolCallId = output[j].toolCallId)
        => /\ ~(output[i].status \in Terminal /\ output[j].status = "in_progress")
           /\ ~(output[i].status = "in_progress" /\ output[j].status = "pending")

\* the session/update frames of seq for session s, in order
UpdatesOf(seq, s) ==
    SelectSeq(seq, LAMBDA m : m.method = "session/update" /\ m.sessionId = s)

IsPrefix(a, b) == Len(a) <= Len(b) /\ SubSeq(b, 1, Len(a)) = a

\* C9: the session/update notifications of a session are written to the output
\* stream in the order in which they were generated.
C9_UpdatesInOrder ==
    \A s \in SessionIds : IsPrefix(UpdatesOf(output, s), UpdatesOf(generated, s))

\* C9 witness: a timer's in_progress update was generated between two updates of
\* the turn, and all three are written.
C9_Witness ==
    \E s \in SessionIds :
        LET w == UpdatesOf(output, s) IN
        \E i \in DOMAIN w :
            /\ 1 < i /\ i < Len(w)
            /\ w[i].status = "in_progress" /\ w[i].waiter = -1
            /\ w[i + 1].turn = w[i].turn

\* C10 as stated: when a turn returns cancelled, every tool call it started has a
\* terminal update (its own, or the synthetic failed one), written before the turn
\* returned.
C10_CancelMarksToolsFailed ==
    \A c \in DOMAIN calls :
        (calls[c].pc = "done" /\ calls[c].stopReason = "cancelled") =>
            \A t \in calls[c].started : TerminalUpdates(generated, c, t) # {}

\* ---------------------------------------------------------- permissions
\* ToolOperationContext of the tool the backend runs: a Delete of /etc/passwd
ToolOperation(t) == [operationType |-> "delete", dangerousCommand |-> FALSE,
                     externalFiles |-> TRUE]

\* requiresExplicitPermission
requiresExplicitPermission(context) ==
    \/ context.operationType = "delete"
    \/ context.operationType = "execute" /\ context.dangerousCommand
    \/ context.externalFiles

\* the session/request_permission requests written for tool t of turn c
PermissionRequests(c, t) ==
    {i \in DOMAIN output : /\ output[i].method = "session/request_permission"
                           /\ output[i].toolCallId = t /\ output[i].turn = c}

\* C11 as stated: once a turn on a live connection is answered, every tool call it
\* announced whose operation requires confirmation has exactly one
\* session/request_permission request on the output stream.
C11_OnePermissionRequest ==
    \A c \in DOMAIN calls :
        (Answered(c) /\ ~isDestroyed) =>
            \A i \in DOMAIN output :
                (/\ output[i].upd = "tool_call" /\ output[i].turn = c
                 /\ requiresExplicitPermission(ToolOperation(output[i].toolCallId)))
                => Cardinality(PermissionRequests(c, output[i].toolCallId)) = 1

\* C12 as stated: a response frame whose id matches a pending outbound request
\* settles that request's future exactly once and removes it from the pending map.
C12_ResponseSettlesOnce ==
    \A i \in DOMAIN futures :
        futures[i].answered > 0 =>
            /\ futures[i].settles = 1
            /\ futures[i].state \in {"resolved", "rejected"}
            /\ futures[i].id \notin pendingResponses

\* C13 as stated: once the connection is destroyed no outbound request future is
\* pending, and those destroy() found pending are rejected with code -32003.
C13_NonePendingAfterDestroy ==
    isDestroyed =>
        \A i \in DOMAIN futures :
            /\ futures[i].state # "pending"
            /\ futures[i].answered = 0 /\ futures[i].state = "rejected"
                  => futures[i].code = CONNECTION_DESTROYED

\* destroy() leaves no entry in the pending map, and every future that was in the
\* map when destroy() ran is rejected with code -32003
DestroyRejectsMapped ==
    isDestroyed =>
        /\ pendingResponses = {}
        /\ \A i \in DOMAIN futures :
              futures[i].answered = 0 =>
                  \/ futures[i].state = "threw"
                  \/ futures[i].state = "rejected" /\ futures[i].code = CONNECTION_DESTROYED

\* C14 as stated: the response written for a line that is not JSON carries code
\* -32700 and a null id.
C14_ParseErrorIdNull ==
    \A i \in DOMAIN output :
        (output[i].type = "response" /\ output[i].code = PARSE_ERROR) =>
            output[i].idText = "null"

\* C15: a frame whose params fail the schema never reaches the agent method, and
\* if it is a request its response is an error with code -32602.
C15_InvalidParamsRejected ==
    \A c \in DOMAIN calls :
        (calls[c].via = "conn" /\ calls[c].params = "invalid") =>
            /\ ~calls[c].invoked /\ calls[c].pc = "done"
            /\ calls[c].id # 0 =>
                  /\ \A i \in Responses(calls[c].id) : output[i].code = INVALID_PARAMS
                  /\ (Answered(c) /\ ~isDestroyed) => Responses(calls[c].id) # {}

\* C15 witness: a session/prompt request with invalid params was answered with
\* code -32602 on a live connection.
C15_Witness ==
    \E c \in DOMAIN calls :
        /\ calls[c].method = "session/prompt" /\ calls[c].params = "invalid"
        /\ Answered(c) /\ ~isDestroyed
        /\ \E i \in Responses(calls[c].id) : output[i].code = INVALID_PARAMS

\* C16 as stated: a request naming a session that is not in the session map is
\* answered with code -32001.
C16_SessionNotFound ==
    \A c \in DOMAIN calls :
        calls[c].error = "Error: Session not found" => calls[c].code = SESSION_NOT_FOUND

\* C17 as stated: a session/new refused by the resource manager fails with code
\* -32003 and adds no session.
C17_NewSessionResourceExhausted ==
    \A c \in DOMAIN calls :
        (calls[c].method = "session/new" /\ calls[c].invoked /\ calls[c].error # "") =>
            /\ calls[c].code = RESOURCE_EXHAUSTED
            /\ calls[c].sessionId = ""

\* ------------------------------------------------------ circuit breaker
\* the agent_message_chunk updates turn c has sent
Chunks(c) == {i \in DOMAIN generated : generated[i].turn = c
                                       /\ generated[i].upd = "agent_message_chunk"}

\* the calls of the wrapped function (the backend) made for turn c
BackendCalls(c) == {i \in DOMAIN cbLog : cbLog[i].call = c /\ cbLog[i].invoked}

ServiceUnavailable == <<"[RETRY] Service temporarily unavailable - retrying automatically">>

Failed(i) == cbLog[i].invoked /\ cbLog[i].error # ""

\* the number of consecutive failed calls that end with call i
RECURSIVE Streak(_)
Streak(i) == IF i = 0 \/ ~Failed(i) THEN 0 ELSE 1 + Streak(i - 1)

\* C19 as stated: a breaker that is CLOSED goes to OPEN on the call that makes
\* failureThreshold consecutive failed calls, and on no earlier one.
C19_OpensAfterNFailures ==
    \A i \in DOMAIN cbLog :
        (cbLog[i].pre = "CLOSED" /\ Failed(i)) =>
            (cbLog[i].post = "OPEN" <=> Streak(i) = breaker.opts.failureThreshold)

\* What does hold of the threshold: on a new breaker whose calls have all failed,
\* none of them more than the monitoring period after the first, the breaker
\* opens on call number failureThreshold.
NewBreakerOpensAtThreshold ==
    \A i \in DOMAIN cbLog :
        (cbLog[i].pre = "CLOSED" /\ Failed(i) /\ Streak(i) = i
           /\ cbLog[i].at - cbLog[1].at <= breaker.opts.monitoringPeriod) =>
            (cbLog[i].post = "OPEN" <=> i = breaker.opts.failureThreshold)

\* C20: a call made while the breaker is OPEN and the time of the next attempt
\* has not come throws the circuit-open error, does not call the wrapped
\* function and leaves the breaker OPEN.
C20_OpenFailsFast ==
    \A i \in DOMAIN cbLog :
        (cbLog[i].pre = "OPEN" /\ cbLog[i].at < cbLog[i].nextAttempt) =>
            /\ ~cbLog[i].invoked
            /\ cbLog[i].error = "Circuit breaker is OPEN - failing fast"
            /\ cbLog[i].post = "OPEN"

\* C20 witness: a call was made on an OPEN breaker after time had passed, but
\* before the next attempt was due, and it failed fast.
C20_Witness ==
    \E i \in DOMAIN cbLog :
        /\ cbLog[i].pre = "OPEN" /\ cbLog[i].at < cbLog[i].nextAttempt
        /\ i > 1 /\ cbLog[i].at > cbLog[i - 1].at
        /\ ~cbLog[i].invoked

C29_ClosedOnlyFromHalfOpen ==
    \A i \in DOMAIN cbLog :
        (cbLog[i].invoked /\ cbLog[i].post = "CLOSED") =>
            cbLog[i].settledIn \in {"CLOSED", "HALF_OPEN"}

\* ------------------------------------------------------------------ plans
\* the number of leading completed entries of a plan snapshot
RECURSIVE CompletedPrefix(_)
CompletedPrefix(entries) ==
    IF entries = <<>> \/ Head(entries) # "completed" THEN 0
    ELSE 1 + CompletedPrefix(Tail(entries))

InProgressEntries(entries) == {k \in DOMAIN entries : entries[k] = "in_progress"}

\* the plan updates written to the output
PlanUpdates == {i \in DOMAIN output : output[i].upd = "plan"}

\* output[k] is the response to a session/prompt of session s
PromptResponse(k, s) ==
    /\ output[k].type = "response"
    /\ \E c \in DOMAIN calls : /\ calls[c].method = "session/prompt"
                                /\ calls[c].sessionId = s /\ calls[c].id = output[k].id

\* C23 as stated: of two plan updates the client receives within one turn (no
\* response to a prompt of the session between them) the later has at least as
\* many leading completed entries, and no plan update has more than one entry
\* in_progress.
C23_PlanProgressMonotone ==
    /\ \A i \in PlanUpdates : Cardinality(InProgressEntries(output[i].entries)) <= 1
    /\ \A i, j \in PlanUpdates :
          (/\ i < j /\ output[i].sessionId = output[j].sessionId
           /\ \A k \in (i + 1)..(j - 1) : ~PromptResponse(k, output[i].sessionId)) =>
              CompletedPrefix(output[i].entries) <= CompletedPrefix(output[j].entries)

\* What does hold of the plan updates: every snapshot has at most one entry
\* in_progress, and the snapshots that one turn generated or armed a timer for
\* never lose completed entries.
PlanSnapshotsOfATurn ==
    /\ \A i \in PlanUpdates : Cardinality(InProgressEntries(output[i].entries)) <= 1
    /\ \A i, j \in PlanUpdates :
          (i < j /\ output[i].turn = output[j].turn) =>
              CompletedPrefix(output[i].entries) <= CompletedPrefix(output[j].entries)

\* ------------------------------------------------------- ResourceManager
OutstandingBefore == Cardinality(rmLast.before.concurrentOperations)
Outstanding == Cardinality(rm.concurrentOperations)

\* C21: the number of outstanding operations never exceeds
\* maxConcurrentOperations; startOperation called while that many are outstanding
\* returns false and changes nothing; finishOperation of an outstanding operation
\* leaves exactly one outstanding operation fewer.
C21_OperationSlots ==
    /\ Outstanding <= rm.limits.maxConcurrentOperations
    /\ (rmLast.op = "startOperation"
        /\ OutstandingBefore >= rm.limits.maxConcurrentOperations)
       => (~rmLast.result /\ rm = rmLast.before)
    /\ (rmLast.op = "finishOperation"
        /\ rmLast.id \in rmLast.before.concurrentOperations)
       => Outstanding = OutstandingBefore - 1

\* startOperation was refused for the operation limit alone: memory and the
\* file-descriptor estimate were within their limits
C21_Witness ==
    /\ rmLast.op = "startOperation"
    /\ ~rmLast.result
    /\ OutstandingBefore = rm.limits.maxConcurrentOperations
    /\ LET stats == getStats(rmLast.before, rmLast.rss) IN
       /\ stats.memoryUsageMB < rm.limits.memoryCriticalThresholdMB
       /\ stats.activeFileDescriptors < rm.limits.maxFileDescriptors

\* an operation finished while the limit was reached, and one slot is free again
SlotRestoredAtLimit ==
    /\ rmLast.op = "finishOperation"
    /\ rmLast.id \in rmLast.before.concurrentOperations
    /\ OutstandingBefore = rm.limits.maxConcurrentOperations
    /\ Outstanding = rm.limits.maxConcurrentOperations - 1

\* C30 as stated: canStartOperation returns false whenever the resident set size
\* is at least memoryCriticalThresholdMB, or the outstanding operations are at
\* least maxConcurrentOperations, or the file-descriptor estimate is at least
\* maxFileDescriptors, and true when all three are strictly below their limits.
C30_CanStartBoundaries ==
    rmLast.op = "canStartOperation" =>
        LET b == rmLast.before
            rssAtLimit == rmLast.rss >= b.limits.memoryCriticalThresholdMB * 1024 * 1024
            opsAtLimit == Cardinality(b.concurrentOperations)
                              >= b.limits.maxConcurrentOperations
            fdAtLimit == getStats(b, rmLast.rss).activeFileDescriptors
                              >= b.limits.maxFileDescriptors
        IN  rmLast.result = ~(rssAtLimit \/ opsAtLimit \/ fdAtLimit)

\* what the code does decide on: the rounded size strictly above the threshold
CanStartAsCoded ==
    rmLast.op = "canStartOperation" =>
        LET b == rmLast.before
            stats == getStats(b, rmLast.rss)
        IN  rmLast.result = ~(\/ stats.memoryUsageMB > b.limits.memoryCriticalThresholdMB
                              \/ stats.concurrentOperations >= b.limits.maxConcurrentOperations
                              \/ stats.activeFileDescriptors >= b.limits.maxFileDescriptors)

\* -------------------------------------------------------- ContextMonitor
\* C22: every addMessage adds to the session's accumulated estimate the least
\* whole number of tokens t with 4 * t >= content length, and returns critical
\* when accumulated / 200000 >= 0.95, warning when it is >= 0.80 and < 0.95, and
\* nothing otherwise.
C22_ContextWarnings ==
    \A i \in DOMAIN cmLog :
        LET e == cmLog[i]
            t == e.after - e.before
        IN  /\ 4 * t >= e.length
            /\ 4 * (t - 1) < e.length
            /\ e.returns = "critical" <=> e.after * 100 >= 95 * 200000
            /\ e.returns = "warning" <=> (e.after * 100 >= 80 * 200000
                                          /\ e.after * 100 < 95 * 200000)
            /\ e.returns = "null" <=> e.after * 100 < 80 * 200000

\* one session went from no warning to a warning to critical over three
\* messages, the second of a single character
C22_Witness ==
    /\ Len(cmLog) = 3
    /\ \A i \in 1..3 : cmLog[i].sessionId = cmLog[1].sessionId
    /\ cmLog[1].returns = "null" /\ cmLog[1].before = 0
    /\ cmLog[2].returns = "warning" /\ cmLog[2].length = 1
    /\ cmLog[2].before = cmLog[1].after
    /\ cmLog[3].returns = "critical" /\ cmLog[3].before = cmLog[2].after

\* ------------------------------------------------- line framing of input
LinesReceived == Cardinality(Terminated(wire, 0, received))
AfterLastLine == IF LinesReceived = 0 THEN 0 ELSE FrameEnd(wire, LinesReceived) + 1
FirstFrames(n) == [i \in 1..n |-> i]

\* C24 as stated: whatever the chunks, each transport has delivered exactly the
\* frames whose "\n" has arrived, once each and in order, and holds exactly the
\* characters after the last "\n" for the next read.
C24_FramingIndependentOfChunks ==
    /\ ioEmitted = FirstFrames(LinesReceived)
    /\ connProcessed = FirstFrames(LinesReceived)
    /\ ioStart = AfterLastLine
    /\ connStart = AfterLastLine

\* where split(EOL) splits at "\n" and no frame is longer than ProtocolIO's trim
\* limit, both transports do deliver every frame in order and keep the rest
FramingOfShortFrames ==
    (eol = "\n" /\ \A k \in DOMAIN wire : wire[k] <= BUFFER_TRIM)
        => C24_FramingIndependentOfChunks

\* C25 as stated: after a chunk is taken in, neither receive buffer holds more
\* than 1 MiB of unterminated input.
C25_BufferCapped ==
    /\ received - ioStart <= 1024 * 1024
    /\ received - connStart <= 1024 * 1024

\* ProtocolIO on its own never keeps more than its trim limit
ProtocolIOBufferTrimmed == received - ioStart <= BUFFER_TRIM

\* ------------------------------------------------------------- shutdown
TurnsInFlight ==
    {c \in DOMAIN calls : calls[c].method = "session/prompt" /\ calls[c].pc # "done"}

\* C26 as stated: once the input has ended or the process has exited on a
\* signal, no session is left in the map and the abort controller of the
\* session of every turn still in flight has been aborted.
C26_ShutdownDisposesSessions ==
    (exited \/ ioDisposed) =>
        /\ DOMAIN sessions = {}
        /\ \A c \in TurnsInFlight :
              calls[c].sessionId \in DOMAIN sessions
                  => sessions[calls[c].sessionId].abortController = "aborted"

LoadRefusedAtLimit ==
    /\ loadLast.error # ""
    /\ loadLast.sessionId \notin DOMAIN sessions
    /\ Cardinality(activeSessions) = maxConcurrentSessions

\* loadSession was called for a session the map held
LoadedPresentSession ==
    /\ loadLast.sessionId \in DOMAIN loadLast.before
    /\ loadLast.error = ""

\* ------------------------------------------------- session registration
\* C31 as stated: the sessions in the agent's map are exactly the sessions
\* registered with the resource manager, one slot each, and there are never
\* more of them than maxConcurrentSessions.
C31_SessionSlotsSymmetric ==
    /\ DOMAIN sessions = activeSessions
    /\ Cardinality(DOMAIN sessions) <= maxConcurrentSessions

\* the agent holds more sessions than maxConcurrentSessions
MoreSessionsThanLimit == Cardinality(DOMAIN sessions) > maxConcurrentSessions

\* ------------------------------------------- the context token estimate
\* C32 as stated: the estimate of every session is at least 0 and no operation
\* on the monitor lowers the estimate of a session it keeps.
C32_EstimateNeverDecreases ==
    [][\A s \in DOMAIN monitor \cap DOMAIN monitor' :
          /\ monitor'[s].estimatedTokens >= 0
          /\ monitor'[s].estimatedTokens >= monitor[s].estimatedTokens]_vars

\* C32, amended: the estimate of every session is at least 0, and an operation
\* that keeps a session either leaves its estimate at least as high as it was or
\* is a reset, after which estimate, usage and message count are all 0.
C32_EstimateDecreasesOnlyOnReset ==
    [][\A s \in DOMAIN monitor \cap DOMAIN monitor' :
          /\ monitor'[s].estimatedTokens >= 0
          /\ \/ monitor'[s].estimatedTokens >= monitor[s].estimatedTokens
             \/ monitor'[s] = NoStats]_vars

\* a session's estimate grew over two messages, the second added to the first
C32_Witness ==
    /\ Len(cmLog) >= 2
    /\ cmLog[2].sessionId = cmLog[1].sessionId
    /\ cmLog[1].after > 0
    /\ cmLog[2].before = cmLog[1].after
    /\ cmLog[2].after > cmLog[2].before

\* a session that had an estimate above 0 was reset
SessionWasReset ==
    \E s \in DOMAIN monitor :
        /\ monitor[s] = NoStats
        /\ \E i \in DOMAIN cmLog : cmLog[i].sessionId = s /\ cmLog[i].after > 0

\* the mode of the marker that occurs first in the text, the current mode when the
\* text holds no marker
parseFirstInText(promptText, currentMode) ==
    LET at == {i \in DOMAIN promptText : promptText[i] \in Markers} IN
    IF at = {} THEN currentMode
    ELSE LET first == promptText[CHOOSE i \in at : \A j \in at : i <= j] IN
         CASE first = ACCEPT_EDITS -> "acceptEdits"
           [] first = BYPASS -> "bypassPermissions"
           [] OTHER -> "default"

\* C33: a prompt with inline permission markers sets the session's mode to that of
\* the marker occurring first in the text, and the mode a prompt sets is the
\* session's mode afterwards; a prompt with no marker leaves the mode as it is.
C33_FirstMarkerWins ==
    permLast # NoPermPrompt =>
        /\ permLast.mode = parseFirstInText(permLast.text, permLast.previous)
        /\ permissionMode = permLast.mode

\* the armed plan timers of session s: its plan updates not yet sent
PendingPlanUpdates(s) == {i \in DOMAIN timers500 : timers500[i].sessionId = s}

\* C34: plan updates are debounced: plan advances made while a plan update of the
\* session is pending share its one notification, so a session never has two plan
\* updates pending.
C34_PlanUpdatesDebounced ==
    \A s \in DOMAIN sessions : Cardinality(PendingPlanUpdates(s)) <= 1

\* the plan notifications the timers have sent
TimerPlans == {i \in DOMAIN generated : generated[i].upd = "plan" /\ generated[i].waiter = -1}

\* two advances in one window gave two notifications of the same snapshot
PlanNotifiedTwice ==
    \E i, j \in TimerPlans :
        /\ i < j
        /\ generated[i].sessionId = generated[j].sessionId
        /\ generated[i].entries = generated[j].entries

\* the frames written about tool call t of session s that tell where its record
\* stands: the pending tool_call and the terminal updates
RecordFrames(s, t) ==
    {i \in DOMAIN output : /\ output[i].type = "notification"
                           /\ output[i].sessionId = s /\ output[i].toolCallId = t
                           /\ output[i].status \in {"pending", "completed", "failed"}}

\* the record of t is terminal and its final update is sent
TerminalSent(s, t) ==
    /\ RecordFrames(s, t) # {}
    /\ LET last == CHOOSE i \in RecordFrames(s, t) : \A j \in RecordFrames(s, t) : j <= i
       IN  output[last].status \in {"completed", "failed"}

\* C35: once no turn of a session is running, the session's map of active tool
\* calls holds no tool call that is terminal and whose final update is sent.
C35_TerminalRecordsRemoved ==
    \A s \in DOMAIN sessions :
        InFlight(s) = {} =>
            \A t \in sessions[s].operationContext : ~TerminalSent(s, t)

\* a completed tool call is removed from the map, with its turn still running
CompletedRecordRemoved ==
    \E s \in DOMAIN sessions, t \in ToolIds :
        /\ TerminalSent(s, t)
        /\ t \notin sessions[s].operationContext

\* the operation slots call c holds
SlotsOf(c) == activeOps \cap {<<"prompt", c>>, <<"claude-query", c>>}

\* C36: a call of session/prompt that has returned or thrown holds no operation
\* slot, and with no turn running no operation is outstanding.
C36_SlotsReleased ==
    /\ \A c \in DOMAIN calls : Turn(c) /\ calls[c].pc = "done" => SlotsOf(c) = {}
    /\ (\A c \in DOMAIN calls : Turn(c) => calls[c].pc = "done") => activeOps = {}

\* turns have returned end_turn after backend messages, cancelled, and by throwing
C36_Witness ==
    /\ activeOps = {}
    /\ \E c \in DOMAIN calls : /\ Turn(c) /\ calls[c].pc = "done"
                               /\ calls[c].stopReason = "end_turn" /\ calls[c].events > 0
    /\ \E c \in DOMAIN calls : /\ Turn(c) /\ calls[c].pc = "done"
                               /\ calls[c].stopReason = "cancelled"

\* a turn has returned after an in-band error, another by throwing
TurnsFailed ==
    /\ activeOps = {}
    /\ \E c \in DOMAIN calls : Turn(c) /\ calls[c].pc = "done" /\ calls[c].error # ""
    /\ \E i \in DOMAIN generated : generated[i].text # <<>>

\* the peer's answer to a pending outbound request is the next line of the input
AnswerWaiting ==
    /\ ~isDestroyed
    /\ input # <<>>
    /\ Head(input).type = "response"
    /\ Head(input).id \in pendingResponses

\* C37: the answer to an outbound request sent during a handler is delivered while
\* that handler is still running: with the answer next on the input, the reader
\* can take it and settle the request.
C37_AnswerDelivered == (AnswerWaiting /\ HandlerRunning) => ENABLED Receive

\* an answered outbound request is settled after the handler has returned
SettledAfterHandler ==
    /\ ~HandlerRunning
    /\ \E i \in DOMAIN futures : futures[i].state \in {"resolved", "rejected"}

\* the tasks schedule returned true for, and those run() has called
Accepted == (1..(rtLog.next - 1)) \ rtLog.refused
Called == {rtLog.order[i] : i \in DOMAIN rtLog.order}

\* C39: at most one run loop is active, at most one task is called and not yet
\* settled, and the tasks are called in the order schedule accepted them: an
\* accepted task is called before every task accepted after it, and no task is
\* called twice or without having been accepted.
C39_OneAtATimeInOrder ==
    /\ rtLog.loops <= 1
    /\ Cardinality(rtLog.inFlight) <= 1
    /\ runtime.pc = "loop" => rtLog.inFlight = {}
    /\ LET order == rtLog.order
           n == Len(order)
           last == IF n = 0 THEN 0 ELSE order[n]
       IN  /\ \A i \in 1..n : order[i] < rtLog.next /\ order[i] \notin rtLog.refused
           /\ \A i \in 1..(n - 1) : order[i] < order[i + 1]
           /\ Cardinality((1..last) \ rtLog.refused) = n

\* a task is in flight while two accepted tasks wait and a task was refused
C39_Witness ==
    /\ rtLog.inFlight # {}
    /\ Len(runtime.queue) >= 2
    /\ Len(rtLog.order) >= 2
    /\ rtLog.refused # {}

\* C40: every task schedule returned true for is eventually called: whatever was
\* accepted so far, a later state has called all of it (the accepted and the called
\* tasks only grow, so each accepted task is then among the called ones).
C40_AcceptedEventuallyRun == []<>(Accepted \subseteq Called)

\* C40, the scheduler is never stuck: while an accepted task waits, a run loop is
\* active and has a step to take, also after a task that threw or rejected.
C40_NeverStuck ==
    runtime.queue # <<>> =>
        /\ runtime.running
        /\ runtime.pc \in {"loop", "awaitTask", "yield"}

\* a task was called after the task before it threw or rejected
C40_Witness ==
    /\ rtLog.threw
    /\ Len(rtLog.order) >= 2
    /\ runtime.queue # <<>>
    /\ runtime.pc = "loop"

\* the replies written for message k
RepliesTo(k) == {i \in DOMAIN replies : replies[i].id = k}

\* the messages decoded after the orchestrator has started
Heard == {k \in DOMAIN decoded : decoded[k].heard}

\* the Runtime has nothing left to do
Quiescent == runtime.queue = <<>> /\ runtime.pc = "idle"

\* C38: no message decoded after the orchestrator has started is answered twice,
\* and once the Runtime has run every task each such message has exactly one
\* reply with its id.
C38_ExactlyOneReply ==
    /\ \A k \in Heard : Cardinality(RepliesTo(k)) <= 1
    /\ Quiescent => \A k \in Heard : Cardinality(RepliesTo(k)) = 1

\* the part that holds: never two replies, and a reply only to a heard message
AtMostOneReply ==
    /\ \A k \in DOMAIN decoded : Cardinality(RepliesTo(k)) <= 1
    /\ \A i \in DOMAIN replies : replies[i].id \in Heard

\* every heard message got its reply
AllAnswered ==
    /\ Quiescent
    /\ Len(decoded) = MaxDecoded
    /\ \A k \in DOMAIN decoded : decoded[k].heard /\ Cardinality(RepliesTo(k)) = 1

\* a request for a completion was heard, handled after stdin ended, and not answered
ReplyLostAtEnd ==
    /\ Quiescent /\ ioDisposed
    /\ \E k \in Heard : decoded[k].type = "codex.complete" /\ RepliesTo(k) = {}

\* the JSON text null was heard and handled with the io live, and not answered
NullUnanswered ==
    /\ Quiescent /\ ~ioDisposed
    /\ \E k \in Heard : decoded[k].type = "null" /\ RepliesTo(k) = {}

====
